---- MODULE Spec2Model ----
(***************************************************************************)
(* A state-machine model of pyguilib: the widget instance core             *)
(* (components/pygui_instance.py, pyguilib.py), the action service         *)
(* (services/action_service.py) and the tween service                      *)
(* (services/tween_service.py).                                            *)
(*                                                                         *)
(* Python values are modelled as follows: None is the empty tuple,         *)
(* a pygame Vector2 is a pair <<x, y>>, a UDim2 is a 4-tuple               *)
(* <<scale_x, offset_x, scale_y, offset_y>>, an ordered dict is a sequence *)
(* of <<key, value>> pairs in insertion order.                             *)
(***************************************************************************)
EXTENDS Integers, Sequences, FiniteSets, TLC

VARIABLES
    childrens,                  \* PyGuiInstance._childrens, per widget
    BUILT,                      \* PyGuiInstance._BUILT, per widget
    BLOCKING_SCREEN_BUFFER_UPDATE, \* PyGuiInstance._BLOCKING_SCREEN_BUFFER_UPDATE, per widget
    root_quadtree_reference,    \* whether the widget has a _root_quadtree_reference attribute
    instance_depth,             \* PyGuiInstance.__instance_depth, per widget
    properties,                 \* the base values _visible, _position, ... per widget
    properties_overrides,       \* PyGuiInstance._properties_overrides, per widget
    child_added_fired,          \* how often parent.child_added fired with the widget as argument
    quadtree_inserts,           \* how often the widget was handed to Quadtree.insert
    writes,                     \* how many property operations have been made
    written,                    \* per property, the value last handed to its setter
    calls,                      \* what the last operation did, in order
    raised,                     \* the exception the last operation raised, or NoError
    last                        \* the last operation and what held when it was called

widgetVars == <<childrens, BUILT, BLOCKING_SCREEN_BUFFER_UPDATE, root_quadtree_reference,
                instance_depth, properties, properties_overrides, child_added_fired,
                quadtree_inserts, writes, written, calls, raised, last>>

VARIABLES
    binds_events_queue,         \* action_service.binds_events_queue
    events_batch,               \* the events handed to the last update() of the action service
    dispatched,                 \* the callbacks that update() invoked, in order
    action_last,                \* the last operation on the action service
    action_raised               \* the exception it raised, or NoError

actionVars == <<binds_events_queue, events_batch, dispatched, action_last, action_raised>>

VARIABLES
    tween_status,               \* tween._tween_status, "None" before the constructor ran
    original_properties,        \* tween._original_properties, in the order of the dict
    start_time,                 \* tween._start_time
    end_time,                   \* tween._end_time
    tween_ended_handlers,       \* how many on_tween_ended are connected to tween.tween_ended
    instantiated_tweens,        \* tween_service.instantiated_tweens
    clock,                      \* what time.time() returns
    tween_last,                 \* the last operation on the tween service
    tween_raised,               \* the exception it raised, or NoError
    tween_tick                  \* what the last update() of the tween service did, tween by tween

tweenVars == <<tween_status, original_properties, start_time, end_time, tween_ended_handlers,
               instantiated_tweens, clock, tween_last, tween_raised, tween_tick>>

VARIABLES
    child_size,                 \* (width, height) of each child of the Frame F
    layout_order,               \* child._layout_order
    F_root_quadtree_reference,  \* whether F has the attribute build() reads
    F_childrens,                \* the values of F._childrens, in the order of the dict
    child_BUILT,                \* child._BUILT
    F_BLOCKING_SCREEN_BUFFER_UPDATE, \* F._BLOCKING_SCREEN_BUFFER_UPDATE
    applied_layout,             \* F._applied_layout
    layout_instance,            \* layout._instance
    child_added_connections,    \* the layouts whose handler is connected to F.child_added
    sorted_instance_childs,     \* layout._sorted_instance_childs
    horizontal_alignment,       \* layout._horizontal_alignment
    vertical_alignment,         \* layout._vertical_alignment
    fill_direction,             \* layout._fill_direction
    child_overrides,            \* child._properties_overrides
    style_writes,               \* how many style setters were called
    layout_raised,              \* the exception of the last layout operation, or NoError
    layout_last,                \* the last layout operation
    G_applied_layout,           \* G._applied_layout, G being a second Frame, without children
    layout_calls                \* the clear() and draw() calls on F of the last operation, each pass after a "pass" entry

layoutVars == <<child_size, layout_order, F_root_quadtree_reference, F_childrens, child_BUILT,
                F_BLOCKING_SCREEN_BUFFER_UPDATE, applied_layout, layout_instance,
                child_added_connections, sorted_instance_childs, horizontal_alignment,
                vertical_alignment, fill_direction, child_overrides, style_writes,
                layout_raised, layout_last, G_applied_layout, layout_calls>>

VARIABLES
    qt_scenario,    \* which items the program inserts
    qt_objects,     \* the nodes of the root Quadtree and their _objects
    qt_inserted     \* the items handed to insert since the last reset

quadVars == <<qt_scenario, qt_objects, qt_inserted>>

VARIABLES
    root_quadtree,                  \* pygui._root_quadtree of each root, as qt_objects
    frame_childrens,                \* _childrens of the roots and the widgets below them
    last_pygame_window_size,        \* pyguilib.last_pygame_window_size
    last_mouse_over_instance,       \* pyguilib.last_mouse_over_instance
    current_mouse_over_instance,    \* pyguilib.current_mouse_over_instance
    frame_log,                      \* the calls of the last update(), in order
    frame_mouse,                    \* pygame.mouse.get_pos() of the last update()
    frame_raised                    \* the exception the last update() raised, or NoError

frameVars == <<root_quadtree, frame_childrens, last_pygame_window_size,
               last_mouse_over_instance, current_mouse_over_instance, frame_log, frame_mouse,
               frame_raised>>

VARIABLES
    instance_updaters,          \* PyGuiInstance.__instance_updaters of one widget
    instance_drawers,           \* PyGuiInstance.__instance_drawers of that widget
    updaters_registered,        \* the updater hooks in the order of their registration
    drawers_registered,         \* the drawer hooks in the order of their registration
    hook_log,                   \* the hooks the last update() or draw() invoked, in order
    hook_last                   \* the last operation on the hooks

hookVars == <<instance_updaters, instance_drawers, updaters_registered, drawers_registered,
              hook_log, hook_last>>

VARIABLES
    handler_list_head,          \* signal._handler_list_head
    connection_next,            \* connection._next
    connection_connected,       \* connection._connected
    signal_connections,         \* the connections connect() returned, in order
    signal_fired,               \* the connections whose callback the last operation invoked, in order
    signal_last,                \* the last operation on the signal and what held when it was called
    signal_raised               \* the exception it raised, or NoError

signalVars == <<handler_list_head, connection_next, connection_connected, signal_connections,
                signal_fired, signal_last, signal_raised>>

VARIABLES
    is_focused,                 \* text_box._is_focused
    focus_raised,               \* the exception the last text box operation raised, or NoError
    focus_last                  \* the last text box operation

focusVars == <<is_focused, focus_raised, focus_last>>

componentVars == <<hookVars, signalVars, focusVars>>

vars == <<widgetVars, actionVars, tweenVars, layoutVars, quadVars, frameVars, componentVars>>

(***************************************************************************)
(* The widget tree under construction: the root PyGui, two children of the *)
(* root, a grandchild, and a widget constructed without a parent.          *)
(***************************************************************************)
None == <<>>
NoParent == "None"
NoError == "NoError"

PyGui == "PyGui"
Widgets == {"PyGui", "A", "B", "C", "O"}

\* the parent constructor argument (the parent setter does nothing)
parent ==
    [w \in Widgets |->
        CASE w = "A" -> "PyGui"
          [] w = "C" -> "PyGui"
          [] w = "B" -> "A"
          [] OTHER -> NoParent]

\* the name constructor argument; the name setter never assigns _name
name == [w \in Widgets |-> w]

\* the keys a rename may ask for
NewNames == {"C", "X"}

(***************************************************************************)
(* Ordered dicts.                                                          *)
(***************************************************************************)
DictKeys(d) == {d[i][1] : i \in DOMAIN d}

DictValues(d) == [i \in DOMAIN d |-> d[i][2]]

\* d[k] = v: an existing key keeps its place, a new key goes last
DictSet(d, k, v) ==
    IF k \in DictKeys(d)
    THEN [i \in DOMAIN d |-> IF d[i][1] = k THEN <<k, v>> ELSE d[i]]
    ELSE Append(d, <<k, v>>)

\* d.pop(k) for a key that is present: the dict without it
DictPop(d, k) == SelectSeq(d, LAMBDA e : e[1] # k)

DictGet(d, k) == d[CHOOSE i \in DOMAIN d : d[i][1] = k][2]

\* how many keys of the dict hold widget w
Entries(d, w) == Cardinality({i \in DOMAIN d : d[i][2] = w})

(***************************************************************************)
(* Properties.  The six plain properties hold a flag or a small number,    *)
(* position and size hold a UDim2, anchor_point holds a Vector2.           *)
(***************************************************************************)
PlainProperties ==
    {"visible", "draw_order", "background_color", "background_transparency",
     "border_color", "border_size"}

OverridableProperties == {"position", "size", "anchor_point"}

PropertyNames == PlainProperties \cup OverridableProperties

UDim2Values == {<<0, 0, 0, 0>>, <<0, 5, 0, 5>>}

Vector2Values == {<<0, 0>>, <<1, 1>>}

Values(p) ==
    CASE p = "visible" -> BOOLEAN
      [] p = "anchor_point" -> Vector2Values
      [] p \in {"position", "size"} -> UDim2Values
      [] OTHER -> {0, 1}

\* the constructor's defaults (the root is given size UDim2(1, 0, 1, 0))
DefaultProperties ==
    [p \in PropertyNames |->
        CASE p = "visible" -> TRUE
          [] p = "anchor_point" -> <<0, 0>>
          [] p \in {"position", "size"} -> <<0, 0, 0, 0>>
          [] OTHER -> 0]

\* Python's truth value: None is false, a Vector2 is true unless all its
\* components are zero, a UDim2 (a plain object) is always true
Truthy(v) == v # None /\ (Len(v) = 2 => v # <<0, 0>>)

\* a or b
Or(a, b) == IF Truthy(a) THEN a ELSE b

\* self._properties_overrides.get(property_name, None); the dict is kept as
\* a function that maps a missing key to None
_get_overrided_property(overrides, w, p) == overrides[w][p]

\* the property getters
Get(props, overrides, w, p) ==
    IF p \in OverridableProperties
    THEN Or(_get_overrided_property(overrides, w, p), props[w][p])
    ELSE props[w][p]

\* pygame.display.get_surface().get_size()
DisplaySize == <<800, 600>>

\* the scale of a UDim2 on an axis (1 is x, 2 is y), and its offset
scale(udim2, axis) == udim2[2 * axis - 1]
offset(udim2, axis) == udim2[2 * axis]

RECURSIVE absolute_size_of_base(_, _, _)

\* a read of the size that leaves out the override layer
absolute_size_of_base(props, overrides, w) ==
    LET parent_absolute_size ==
            IF parent[w] # NoParent
            THEN absolute_size_of_base(props, overrides, parent[w])
            ELSE DisplaySize
    IN  [axis \in {1, 2} |->
            parent_absolute_size[axis] * scale(props[w]["size"], axis)
                + offset(props[w]["size"], axis)]

RECURSIVE absolute_size(_, _, _)

\* PyGuiInstance.absolute_size, read from the base values props and the
\* overrides
absolute_size(props, overrides, w) ==
    LET parent_absolute_size ==
            IF parent[w] # NoParent
            THEN absolute_size(props, overrides, parent[w])
            ELSE DisplaySize
        size == Get(props, overrides, w, "size")
    IN  [axis \in {1, 2} |->
            parent_absolute_size[axis] * scale(size, axis) + offset(size, axis)]

RECURSIVE absolute_position(_, _, _)

\* PyGuiInstance.absolute_position
absolute_position(props, overrides, w) ==
    LET parent_absolute_position ==
            IF parent[w] # NoParent
            THEN absolute_position(props, overrides, parent[w])
            ELSE <<0, 0>>
        parent_absolute_size ==
            IF parent[w] # NoParent
            THEN absolute_size(props, overrides, parent[w])
            ELSE DisplaySize
        position == Get(props, overrides, w, "position")
        anchor_point == Get(props, overrides, w, "anchor_point")
    IN  [axis \in {1, 2} |->
            (parent_absolute_position[axis]
                 + parent_absolute_size[axis] * scale(position, axis)
                 + offset(position, axis))
                - absolute_size(props, overrides, w)[axis] * anchor_point[axis]]

(***************************************************************************)
(* The record of what an operation did.  d is the nesting depth of a call: *)
(* 0 for a call the operation makes itself, more for the calls draw()      *)
(* makes on the children.                                                  *)
(***************************************************************************)
Call(op, w, p, d) == [op |-> op, w |-> w, p |-> p, d |-> d]

RECURSIVE draw(_, _, _, _)
RECURSIVE draw_childs(_, _, _, _)

\* PyGuiInstance.draw: nothing when invisible, else a blit and then
\* clear() and draw() of every child in the order of _childrens
draw(ch, props, w, d) ==
    <<Call("draw", w, "", d)>> \o
        (IF props[w]["visible"]
         THEN <<Call("blit", w, "", d)>> \o draw_childs(ch, props, DictValues(ch[w]), d + 1)
         ELSE <<>>)

draw_childs(ch, props, kids, d) ==
    IF kids = <<>>
    THEN <<>>
    ELSE <<Call("clear", Head(kids), "", d)>> \o draw(ch, props, Head(kids), d)
             \o draw_childs(ch, props, Tail(kids), d)

\* a getter that never reports the redraw as blocked
Blocked_never(blocking, w) == FALSE

\* self.BLOCKING_SCREEN_BUFFER_UPDATE (getter): the parent's counter alone
Blocked(blocking, w) == blocking[parent[w]] > 0

\* a decorator that clears and draws the widget itself
_update_screen_buffer_self(ch, props, built, blocking, w) ==
    IF built[w] /\ ~Blocked(blocking, w)
    THEN <<Call("clear", w, "", 0)>> \o draw(ch, props, w, 0)
    ELSE <<>>

\* the tail of the _update_screen_buffer decorator: after the wrapped call,
\* clear and draw the parent if the widget is built and not blocked
_update_screen_buffer(ch, props, built, blocking, w) ==
    IF built[w] /\ ~Blocked(blocking, w)
    THEN <<Call("clear", parent[w], "", 0)>> \o draw(ch, props, parent[w], 0)
    ELSE <<>>

RECURSIVE SortedInsert(_, _, _)
\* insert e behind every element whose draw_order is not larger (stable)
SortedInsert(s, e, props) ==
    IF s = <<>> THEN <<e>>
    ELSE IF props[Head(s)[2]]["draw_order"] <= props[e[2]]["draw_order"]
         THEN <<Head(s)>> \o SortedInsert(Tail(s), e, props)
         ELSE <<e>> \o s

RECURSIVE _sort_childrens(_, _)
\* dict(sorted(items, key=draw_order)): a stable sort
_sort_childrens(d, props) ==
    IF d = <<>> THEN <<>>
    ELSE SortedInsert(_sort_childrens(SubSeq(d, 1, Len(d) - 1), props), d[Len(d)], props)

(***************************************************************************)
(* The state after construction: nothing built, no child attached, no      *)
(* widget with a _root_quadtree_reference attribute (the root's quadtree   *)
(* is stored as _root_quadtree).                                           *)
(***************************************************************************)
InitWidgets ==
    /\ childrens = [w \in Widgets |-> <<>>]
    /\ BUILT = [w \in Widgets |-> FALSE]
    /\ BLOCKING_SCREEN_BUFFER_UPDATE = [w \in Widgets |-> 0]
    /\ root_quadtree_reference = [w \in Widgets |-> FALSE]
    /\ instance_depth = [w \in Widgets |-> 0]
    /\ properties = [w \in Widgets |-> DefaultProperties]
    /\ properties_overrides = [w \in Widgets |-> [p \in OverridableProperties |-> None]]
    /\ child_added_fired = [w \in Widgets |-> 0]
    /\ quadtree_inserts = [w \in Widgets |-> 0]
    /\ writes = 0
    /\ calls = <<>>
    /\ raised = NoError
    /\ written = [w \in Widgets |->
                     [p \in PropertyNames |-> [value |-> DefaultProperties[p], overridden |-> FALSE]]]
    /\ last = [op |-> "init", w |-> NoParent, p |-> "", v |-> None, pre_built |-> FALSE,
               pre_attached |-> FALSE, pre_counter |-> 0]

\* the operation just made: its arguments, and what held when it was called
Last(op, w, p, v) ==
    [op |-> op, w |-> w, p |-> p, v |-> v, pre_built |-> BUILT[w],
     pre_attached |-> parent[w] # NoParent /\ Entries(childrens[parent[w]], w) > 0,
     pre_counter |-> IF parent[w] = NoParent THEN 0 ELSE BLOCKING_SCREEN_BUFFER_UPDATE[parent[w]]]

(***************************************************************************)
(* The host program gives a widget the attribute build() reads at line 215 *)
(* (w._root_quadtree_reference = root._root_quadtree).  No code of the     *)
(* library assigns it for a child of the root.                             *)
(***************************************************************************)
set_root_quadtree_reference(w) ==
    /\ w # PyGui
    /\ ~root_quadtree_reference[w]
    /\ root_quadtree_reference' = [root_quadtree_reference EXCEPT ![w] = TRUE]
    /\ calls' = <<>>
    /\ raised' = NoError
    /\ last' = Last("set_root_quadtree_reference", w, "", None)
    /\ UNCHANGED <<childrens, BUILT, BLOCKING_SCREEN_BUFFER_UPDATE, instance_depth, properties,
                   properties_overrides, child_added_fired, quadtree_inserts, writes, written>>

(***************************************************************************)
(* PyGuiInstance.build                                                     *)
(***************************************************************************)
\* line 206: self._parent._childrens[self._name] = self
build_attach(ch, w) == [ch EXCEPT ![parent[w]] = DictSet(@, name[w], w)]

\* lines 208-211: take over the parent's _root_quadtree_reference if it has one
build_reference(ref, w) == ref[w] \/ ref[parent[w]]

build(w) ==
    /\ last' = Last("build", w, "", None)
    /\ UNCHANGED <<BLOCKING_SCREEN_BUFFER_UPDATE, properties, properties_overrides, writes, written>>
    /\ IF BUILT[w] \/ parent[w] = NoParent
       THEN \* already built, or "was not added to any parent" is printed
            /\ calls' = <<>>
            /\ raised' = NoError
            /\ UNCHANGED <<childrens, BUILT, root_quadtree_reference, instance_depth,
                           child_added_fired, quadtree_inserts>>
       ELSE LET attached == build_attach(childrens, w)
                hasref == build_reference(root_quadtree_reference, w)
                sorted == [attached EXCEPT ![parent[w]] = _sort_childrens(@, properties)]
            IN  /\ root_quadtree_reference' = [root_quadtree_reference EXCEPT ![w] = hasref]
                /\ instance_depth' = [instance_depth EXCEPT ![w] = instance_depth[parent[w]] + 1]
                /\ IF ~hasref
                   THEN \* line 215: self._root_quadtree_reference does not exist
                        /\ childrens' = attached
                        /\ raised' = "AttributeError"
                        /\ calls' = <<>>
                        /\ UNCHANGED <<BUILT, child_added_fired, quadtree_inserts>>
                   ELSE /\ quadtree_inserts' = [quadtree_inserts EXCEPT ![w] = @ + 1]
                        /\ child_added_fired' = [child_added_fired EXCEPT ![w] = @ + 1]
                        /\ childrens' = sorted
                        /\ calls' = <<Call("insert", w, "", 0), Call("child_added", w, "", 0),
                                      Call("clear", w, "", 0)>> \o draw(sorted, properties, w, 0)
                        /\ BUILT' = [BUILT EXCEPT ![w] = TRUE]
                        /\ raised' = NoError

(***************************************************************************)
(* PyGuiInstance.name (setter):                                            *)
(*   self._parent._childrens[value] = self._parent._childrens.pop(self._name) *)
(***************************************************************************)
name_setter(w, value) ==
    /\ last' = Last("name", w, value, None)
    /\ calls' = <<>>
    /\ UNCHANGED <<BUILT, BLOCKING_SCREEN_BUFFER_UPDATE, root_quadtree_reference, instance_depth,
                   properties, properties_overrides, child_added_fired, quadtree_inserts, writes, written>>
    /\ IF parent[w] = NoParent
       THEN raised' = "AttributeError" /\ UNCHANGED childrens
       ELSE IF name[w] \notin DictKeys(childrens[parent[w]])
            THEN raised' = "KeyError" /\ UNCHANGED childrens
            ELSE LET popped == DictGet(childrens[parent[w]], name[w])
                 IN  /\ childrens' = [childrens EXCEPT
                                         ![parent[w]] = DictSet(DictPop(@, name[w]), value, popped)]
                     /\ raised' = NoError

(***************************************************************************)
(* The property setters, each wrapped by _update_screen_buffer:            *)
(*     self._<property> = value                                            *)
(*     self._invoke_property_change_listener("<property>")                 *)
(***************************************************************************)
MaxBlock == 1

\* a setter whose write is lost while an override is installed
setter_store_lost(props, overrides, w, p, v) ==
    IF p \in OverridableProperties /\ overrides[w][p] # None
    THEN props
    ELSE [props EXCEPT ![w][p] = v]

\* self._<property> = value
setter_store(props, overrides, w, p, v) == [props EXCEPT ![w][p] = v]

\* what the body of a setter does, in order
setter_calls(w, p) == <<Call("store", w, p, 0), Call("fire", w, p, 0)>>

property_setter(w, p, v) ==
    /\ writes' = writes + 1
    /\ properties' = setter_store(properties, properties_overrides, w, p, v)
    /\ written' = [written EXCEPT ![w][p] =
                      [value |-> v,
                       overridden |-> p \in OverridableProperties /\ properties_overrides[w][p] # None]]
    /\ calls' = setter_calls(w, p) \o
                    _update_screen_buffer(childrens, properties', BUILT,
                                          BLOCKING_SCREEN_BUFFER_UPDATE, w)
    /\ raised' = NoError
    /\ last' = Last("set", w, p, v)
    /\ UNCHANGED <<childrens, BUILT, BLOCKING_SCREEN_BUFFER_UPDATE, root_quadtree_reference,
                   instance_depth, properties_overrides, child_added_fired, quadtree_inserts>>

\* self._properties_overrides[property_name] = value
add_override_store(overrides, w, p, v) == [overrides EXCEPT ![w][p] = v]

_add_property_override(w, p, v) ==
    /\ writes' = writes + 1
    /\ properties_overrides' = add_override_store(properties_overrides, w, p, v)
    /\ calls' = _update_screen_buffer(childrens, properties, BUILT,
                                      BLOCKING_SCREEN_BUFFER_UPDATE, w)
    /\ raised' = NoError
    /\ last' = Last("add_override", w, p, v)
    /\ UNCHANGED <<childrens, BUILT, BLOCKING_SCREEN_BUFFER_UPDATE, root_quadtree_reference,
                   instance_depth, properties, child_added_fired, quadtree_inserts, written>>

\* del self._properties_overrides[property_name]
remove_override_store(overrides, w, p) == [overrides EXCEPT ![w][p] = None]

_remove_property_override(w, p) ==
    /\ writes' = writes + 1
    /\ last' = Last("remove_override", w, p, None)
    /\ UNCHANGED <<childrens, BUILT, BLOCKING_SCREEN_BUFFER_UPDATE, root_quadtree_reference,
                   instance_depth, properties, child_added_fired, quadtree_inserts, written>>
    /\ IF properties_overrides[w][p] = None
       THEN \* del of a missing key; the decorator's redraw is not reached
            /\ raised' = "KeyError"
            /\ calls' = <<>>
            /\ UNCHANGED properties_overrides
       ELSE /\ properties_overrides' = remove_override_store(properties_overrides, w, p)
            /\ calls' = _update_screen_buffer(childrens, properties, BUILT,
                                              BLOCKING_SCREEN_BUFFER_UPDATE, w)
            /\ raised' = NoError

(***************************************************************************)
(* PyGuiInstance.BLOCKING_SCREEN_BUFFER_UPDATE (setter), wrapped by        *)
(* _update_screen_buffer: the counter lives on the parent.                 *)
(***************************************************************************)
Max(a, b) == IF a >= b THEN a ELSE b

blocking_counter(blocking, w, value) ==
    [blocking EXCEPT ![parent[w]] = Max(0, @ + (IF value THEN 1 ELSE -1))]

BLOCKING_SCREEN_BUFFER_UPDATE_setter(w, value) ==
    /\ last' = Last("blocking", w, "", value)
    /\ UNCHANGED <<childrens, BUILT, root_quadtree_reference, instance_depth, properties,
                   properties_overrides, child_added_fired, quadtree_inserts, writes, written>>
    /\ IF parent[w] = NoParent
       THEN \* self._parent is None
            /\ raised' = "AttributeError"
            /\ calls' = <<>>
            /\ UNCHANGED BLOCKING_SCREEN_BUFFER_UPDATE
       ELSE /\ value => BLOCKING_SCREEN_BUFFER_UPDATE[parent[w]] < MaxBlock
            /\ BLOCKING_SCREEN_BUFFER_UPDATE' =
                   blocking_counter(BLOCKING_SCREEN_BUFFER_UPDATE, w, value)
            /\ calls' = _update_screen_buffer(childrens, properties, BUILT,
                                              BLOCKING_SCREEN_BUFFER_UPDATE', w)
            /\ raised' = NoError

(***************************************************************************)
(* The action service.  A binding is the tuple (name, callback, events,    *)
(* priority) of the queue; a callback is modelled by the value it returns. *)
(* An event has a type and, for a key event, a key.                        *)
(***************************************************************************)
INTERNAL_PRIORITY_THRESHOLD == 1000

SINK == "SINK"
PASS == "PASS"
ActionResults == {SINK, PASS, "None"}

ActionNames == {"first", "second"}

\* pygame's KEYDOWN = 768, MOUSEBUTTONDOWN = 1025, K_a = 97; the key -1 stands
\* for the None that update() reads from an event without a key
PygameEvents == {[type |-> 768, key |-> 97], [type |-> 1025, key |-> -1]}

\* a binding on the key, and one on the two event types
EventCodes == {{97}, {768, 1025}}

Priorities == {5, 10}

MaxBatch == 2

Batches == UNION {[1..n -> PygameEvents] : n \in 0..MaxBatch}

InitActions ==
    /\ binds_events_queue = <<>>
    /\ events_batch = <<>>
    /\ dispatched = <<>>
    /\ action_last = "init"
    /\ action_raised = NoError

\* priority + (INTERNAL_PRIORITY_THRESHOLD if internal else 0)
bind_priority(priority, internal) ==
    priority + (IF internal THEN INTERNAL_PRIORITY_THRESHOLD ELSE 0)

bind_action(action_name, callback, events, priority, internal) ==
    /\ action_last' = "bind_action"
    /\ events_batch' = <<>>
    /\ dispatched' = <<>>
    /\ IF \E i \in DOMAIN binds_events_queue : binds_events_queue[i].name = action_name
       THEN /\ action_raised' = "ValueError"
            /\ UNCHANGED binds_events_queue
       ELSE /\ binds_events_queue' =
                   Append(binds_events_queue,
                          [name |-> action_name, callback |-> callback, events |-> events,
                           priority |-> bind_priority(priority, internal)])
            /\ action_raised' = NoError

unbind_action(action_name) ==
    /\ action_last' = "unbind_action"
    /\ events_batch' = <<>>
    /\ dispatched' = <<>>
    /\ binds_events_queue' = SelectSeq(binds_events_queue, LAMBDA b : b.name # action_name)
    /\ action_raised' = NoError

RECURSIVE InsertByPriority(_, _)
\* b goes behind every binding whose priority is not larger (stable)
InsertByPriority(s, b) ==
    IF s = <<>> THEN <<b>>
    ELSE IF Head(s).priority <= b.priority
         THEN <<Head(s)>> \o InsertByPriority(Tail(s), b)
         ELSE <<b>> \o s

RECURSIVE InsertByPriorityReversed(_, _)
InsertByPriorityReversed(s, b) ==
    IF s = <<>> THEN <<b>>
    ELSE IF Head(s).priority >= b.priority
         THEN <<Head(s)>> \o InsertByPriorityReversed(Tail(s), b)
         ELSE <<b>> \o s

RECURSIVE sorted_binds_reversed(_)
\* the queue sorted with the largest priority first
sorted_binds_reversed(queue) ==
    IF queue = <<>> THEN <<>>
    ELSE InsertByPriorityReversed(sorted_binds_reversed(SubSeq(queue, 1, Len(queue) - 1)),
                                  queue[Len(queue)])

RECURSIVE sorted_binds(_)
\* sorted(binds_events_queue, key=lambda item: item[3])
sorted_binds(queue) ==
    IF queue = <<>> THEN <<>>
    ELSE InsertByPriority(sorted_binds(SubSeq(queue, 1, Len(queue) - 1)), queue[Len(queue)])

\* (event.type if hasattr ...) in events or (event.key if hasattr ...) in events
event_matches(event, events) == event.type \in events \/ event.key \in events

Invocation(i, b) == [event |-> i, name |-> b.name, result |-> b.callback]

RECURSIVE dispatch_event(_, _, _)
\* the inner loop: the matching callbacks in order, up to the first SINK
dispatch_event(binds, events, i) ==
    IF binds = <<>> THEN <<>>
    ELSE IF event_matches(events[i], Head(binds).events)
         THEN IF Head(binds).callback = SINK
              THEN <<Invocation(i, Head(binds))>>
              ELSE <<Invocation(i, Head(binds))>> \o dispatch_event(Tail(binds), events, i)
         ELSE dispatch_event(Tail(binds), events, i)

event_handled(invoked) == invoked # <<>> /\ invoked[Len(invoked)].result = SINK

RECURSIVE dispatch_events(_, _, _)
\* the outer loop: event by event, up to the first handled event
dispatch_events(queue, events, i) ==
    IF i > Len(events) THEN <<>>
    ELSE LET invoked == dispatch_event(sorted_binds(queue), events, i)
         IN  IF event_handled(invoked)
             THEN invoked
             ELSE invoked \o dispatch_events(queue, events, i + 1)

\* action_service.update(events)
action_service_update(events) ==
    /\ action_last' = "update"
    /\ events_batch' = events
    /\ dispatched' = dispatch_events(binds_events_queue, events, 1)
    /\ action_raised' = NoError
    /\ UNCHANGED binds_events_queue

(***************************************************************************)
(* The tween service.  The model's Tween objects are both on widget A;     *)
(* time.time() is an integer clock; a tick reads it for alpha and again for *)
(* the end-time test, and it may have advanced in between.  The model's    *)
(* durations and values make the linear interpolation exact.               *)
(***************************************************************************)
PLAYING == "PLAYING"
PAUSED == "PAUSED"
CANCELED == "CANCELED"
ENDED == "ENDED"
NotConstructed == "None"

Tweens == {"t1", "t2"}

\* the instance, properties and duration arguments of the two constructors
tween_instance == [t \in Tweens |-> "A"]

tween_properties ==
    [t \in Tweens |->
        IF t = "t1" THEN << <<"border_size", 4>>, <<"background_transparency", 4>> >>
                    ELSE << <<"border_size", 6>> >>]

tween_duration == [t \in Tweens |-> 2]

\* the values the program writes to a tracked property itself
TweenStartValues == {0, 2}

MaxTime == 3
MaxPlays == 2
MaxTweenWrites == 1

\* the list update() started with, and one entry per loop iteration: the
\* tween, whether its widget is built, the parent's block counter at its
\* start, the calls made for it and whether tween_ended was fired
NoTick == [started |-> <<>>, processed |-> <<>>]

InitTweens ==
    /\ tween_status = [t \in Tweens |-> NotConstructed]
    /\ original_properties = [t \in Tweens |-> <<>>]
    /\ start_time = [t \in Tweens |-> 0]
    /\ end_time = [t \in Tweens |-> 0]
    /\ tween_ended_handlers = [t \in Tweens |-> 0]
    /\ instantiated_tweens = <<>>
    /\ clock = 0
    /\ tween_last = [op |-> "init", t |-> NotConstructed, status |-> NotConstructed,
                     pre |-> <<>>]
    /\ tween_raised = NoError
    /\ tween_tick = NoTick

\* the operation just made on tween t, its status and the values of its
\* tracked properties when the operation was called
TweenLast(op, t) ==
    [op |-> op, t |-> t, status |-> tween_status[t],
     pre |-> [i \in DOMAIN tween_properties[t] |->
                 Get(properties, properties_overrides, tween_instance[t],
                     tween_properties[t][i][1])]]

\* an operation of the service that is not made on one tween
ServiceLast(op) == [op |-> op, t |-> NotConstructed, status |-> NotConstructed, pre |-> <<>>]

\* time.time() returns a later value
time_passes ==
    /\ clock < MaxTime
    /\ clock' = clock + 1
    /\ tween_last' = ServiceLast("time")
    /\ tween_tick' = NoTick
    /\ tween_raised' = NoError
    /\ UNCHANGED <<tween_status, original_properties, start_time, end_time,
                   tween_ended_handlers, instantiated_tweens>>

\* Tween.__init__: self._original_properties[name] = instance[name]
Tween(t) ==
    /\ tween_status[t] = NotConstructed
    /\ original_properties' =
           [original_properties EXCEPT ![t] =
               [i \in DOMAIN tween_properties[t] |->
                   <<tween_properties[t][i][1],
                     Get(properties, properties_overrides, tween_instance[t],
                         tween_properties[t][i][1])>>]]
    /\ tween_status' = [tween_status EXCEPT ![t] = PAUSED]
    /\ start_time' = [start_time EXCEPT ![t] = 0]
    /\ end_time' = [end_time EXCEPT ![t] = 0]
    /\ tween_last' = TweenLast("Tween", t)
    /\ tween_tick' = NoTick
    /\ tween_raised' = NoError
    /\ UNCHANGED <<tween_ended_handlers, instantiated_tweens, clock>>

\* Tween.play
play(t) ==
    /\ tween_status[t] # NotConstructed
    /\ tween_last' = TweenLast("play", t)
    /\ tween_tick' = NoTick
    /\ IF tween_status[t] = PLAYING
       THEN /\ tween_raised' = "Exception"
            /\ UNCHANGED <<tween_status, original_properties, start_time, end_time,
                           tween_ended_handlers, instantiated_tweens, clock>>
       ELSE /\ tween_ended_handlers[t] < MaxPlays
            /\ tween_status' = [tween_status EXCEPT ![t] = PLAYING]
            /\ start_time' = [start_time EXCEPT ![t] = clock]
            /\ end_time' = [end_time EXCEPT ![t] = clock + tween_duration[t]]
            /\ instantiated_tweens' = Append(instantiated_tweens, t)
            /\ tween_ended_handlers' = [tween_ended_handlers EXCEPT ![t] = @ + 1]
            /\ tween_raised' = NoError
            /\ UNCHANGED <<original_properties, clock>>

\* instance[property_name] = value: the setter with its _update_screen_buffer
\* wrapper; st holds the properties, the record of writes and the call log
setitem(st, blocking, w, p, v) ==
    LET props == setter_store(st.props, properties_overrides, w, p, v)
    IN  [props |-> props,
         written |-> [st.written EXCEPT ![w][p] = [value |-> v, overridden |-> FALSE]],
         calls |-> st.calls \o setter_calls(w, p)
                       \o _update_screen_buffer(childrens, props, BUILT, blocking, w)]

RECURSIVE setitems(_, _, _, _)
\* one setitem per entry of items, in the order of the dict
setitems(st, blocking, w, items) ==
    IF items = <<>> THEN st
    ELSE setitems(setitem(st, blocking, w, Head(items)[1], Head(items)[2]),
                  blocking, w, Tail(items))

\* a cancel() that writes the targets of the tween
cancel_values_target(t) == tween_properties[t]

\* the (name, value) pairs cancel() writes: self._original_properties[name]
cancel_values(t) == original_properties[t]

\* Tween.cancel
cancel(t) ==
    /\ tween_status[t] # NotConstructed
    /\ LET st == setitems([props |-> properties, written |-> written, calls |-> <<>>],
                          BLOCKING_SCREEN_BUFFER_UPDATE, tween_instance[t], cancel_values(t))
       IN  /\ properties' = st.props
           /\ written' = st.written
           /\ calls' = st.calls
    /\ tween_status' = [tween_status EXCEPT ![t] = CANCELED]
    /\ tween_last' = TweenLast("cancel", t)
    /\ tween_tick' = NoTick
    /\ tween_raised' = NoError
    /\ raised' = NoError
    /\ last' = Last("cancel", tween_instance[t], "", None)
    /\ UNCHANGED <<original_properties, start_time, end_time, tween_ended_handlers,
                   instantiated_tweens, clock>>
    /\ UNCHANGED <<childrens, BUILT, BLOCKING_SCREEN_BUFFER_UPDATE, root_quadtree_reference,
                   instance_depth, properties_overrides, child_added_fired, quadtree_inserts,
                   writes>>

Min(a, b) == IF a <= b THEN a ELSE b

\* Tween.alpha, as the numerator of a fraction over the duration:
\*     max(0, min(1, (time.time() - self._start_time) / self._duration))
alpha(t, now) == Max(0, Min(tween_duration[t], now - start_time[t]))

\* map(start, end, alpha) without bounds, alpha = num / den
map(start, end, num, den) == start + ((end - start) * num) \div den

\* the (name, value) pairs one tick writes for tween t (TweenType.LINEAR)
tweened_values(t, now) ==
    [i \in DOMAIN tween_properties[t] |->
        <<tween_properties[t][i][1],
          map(original_properties[t][i][2], tween_properties[t][i][2],
              alpha(t, now), tween_duration[t])>>]

RECURSIVE remove(_, _)
\* list.remove(x) for an x that is in the list: its first occurrence goes
remove(list, x) ==
    IF Head(list) = x THEN Tail(list) ELSE <<Head(list)>> \o remove(Tail(list), x)

InList(list, x) == \E i \in DOMAIN list : list[i] = x

RECURSIVE fire_tween_ended(_, _, _)
\* tween_ended.fire: each connected on_tween_ended removes the tween from
\* the list; list.remove raises ValueError when it is no longer there
fire_tween_ended(list, t, handlers) ==
    IF handlers = 0 THEN [tweens |-> list, raised |-> NoError]
    ELSE IF ~InList(list, t) THEN [tweens |-> list, raised |-> "ValueError"]
         ELSE fire_tween_ended(remove(list, t), t, handlers - 1)

RECURSIVE update_tweens(_, _)
\* the loop of update(): the list iterator is at index i of the list as it
\* is now, so a removal of the current tween skips the one behind it; the
\* clock is st.clock when alpha is read and st.late later at the end-time test
update_tweens(st, i) ==
    IF i > Len(st.tweens) THEN st
    ELSE LET t == st.tweens[i]
             w == tween_instance[t]
             blocked == blocking_counter(st.blocking, w, TRUE)
             set == setitems([props |-> st.props, written |-> st.written,
                              calls |-> _update_screen_buffer(childrens, st.props, BUILT,
                                                              blocked, w)],
                             blocked, w, tweened_values(t, st.clock))
             now == Min(MaxTime, st.clock + st.late)
             status == IF now > end_time[t]
                       THEN [st.status EXCEPT ![t] = ENDED]
                       ELSE st.status
             fired == IF status[t] # PLAYING
                      THEN fire_tween_ended(st.tweens, t, tween_ended_handlers[t])
                      ELSE [tweens |-> st.tweens, raised |-> NoError]
             released == blocking_counter(blocked, w, FALSE)
             entry == [t |-> t, built |-> BUILT[w], pre_counter |-> st.blocking[parent[w]],
                       fired |-> status[t] # PLAYING, calls |-> set.calls,
                       status |-> status[t], alpha |-> alpha(t, st.clock)]
         IN  IF fired.raised # NoError
             THEN [tweens |-> fired.tweens, status |-> status, props |-> set.props,
                   written |-> set.written, blocking |-> blocked,
                   processed |-> Append(st.processed, entry),
                   raised |-> fired.raised, clock |-> now, late |-> st.late]
             ELSE update_tweens(
                      [tweens |-> fired.tweens, status |-> status, props |-> set.props,
                       written |-> set.written, blocking |-> released,
                       processed |->
                           Append(st.processed,
                                  [entry EXCEPT !.calls =
                                      @ \o _update_screen_buffer(childrens, set.props, BUILT,
                                                                 released, w)]),
                       raised |-> NoError, clock |-> now, late |-> st.late],
                      i + 1)

RECURSIVE tick_calls(_)
\* the calls of the whole update(), in order
tick_calls(processed) ==
    IF processed = <<>> THEN <<>>
    ELSE Head(processed).calls \o tick_calls(Tail(processed))

\* by how much the clock advances between the two time.time() of an iteration
ClockAdvances == {0, 1, 2}

\* tween_service.update(events)
tween_service_update ==
    /\ \E late \in ClockAdvances :
        \E st \in {update_tweens(
                     [tweens |-> instantiated_tweens, status |-> tween_status,
                      props |-> properties, written |-> written,
                      blocking |-> BLOCKING_SCREEN_BUFFER_UPDATE, processed |-> <<>>,
                      raised |-> NoError, clock |-> clock, late |-> late], 1)} :
           /\ clock' = st.clock
           /\ instantiated_tweens' = st.tweens
           /\ tween_status' = st.status
           /\ properties' = st.props
           /\ written' = st.written
           /\ BLOCKING_SCREEN_BUFFER_UPDATE' = st.blocking
           /\ calls' = tick_calls(st.processed)
           /\ tween_raised' = st.raised
           /\ tween_tick' = [started |-> instantiated_tweens, processed |-> st.processed]
    /\ tween_last' = ServiceLast("update")
    /\ raised' = NoError
    /\ last' = [op |-> "tween_update", w |-> NoParent, p |-> "", v |-> None,
                pre_built |-> FALSE, pre_attached |-> FALSE, pre_counter |-> 0]
    /\ UNCHANGED <<original_properties, start_time, end_time, tween_ended_handlers>>
    /\ UNCHANGED <<childrens, BUILT, root_quadtree_reference, instance_depth,
                   properties_overrides, child_added_fired, quadtree_inserts, writes>>

(***************************************************************************)
(* The list layout.  A Frame F is the layout container; its children c1,   *)
(* c2, c3 have a size given in offsets only, so that absolute_size is that *)
(* size, and the widths and heights are even, so that the halves taken by  *)
(* the CENTER alignment are exact.  L1 and L2 are two PyGuiListLayout      *)
(* objects made with the default arguments.                                *)
(***************************************************************************)
Childs == {"c1", "c2", "c3"}

Layouts == {"L1", "L2"}

\* the PyGuiGridLayout objects of the program, and all its layout objects
GridLayouts == {"Grid"}
LayoutStyles == Layouts \cup GridLayouts

NoLayout == "None"

\* (width, height) of a child
ChildSizes ==
    {[c \in Childs |-> <<40, 10>>],
     [c \in Childs |-> IF c = "c1" THEN <<40, 10>> ELSE <<60, 10>>],
     [c \in Childs |-> IF c = "c1" THEN <<60, 30>> ELSE <<60, 10>>]}

\* the layout_order arguments of the three constructors
LayoutOrders ==
    {[c \in Childs |-> IF c = "c2" THEN 1 ELSE 0]}

\* F.absolute_size
ContainerSize == <<100, 50>>

HorizontalAlignments == {"LEFT", "CENTER", "RIGHT"}
VerticalAlignments == {"TOP", "CENTER", "BOTTOM"}
FillDirections == {"HORIZONTAL", "VERTICAL"}

\* the layout whose style the program chooses, and the horizontal_alignment
\* arguments of its constructor
Styled == {"L1"}
ConstructedAlignments == {"LEFT", "CENTER"}

MaxListed == 3
MaxStyleWrites == 1

InitLayout ==
    /\ child_size \in ChildSizes
    /\ layout_order \in LayoutOrders
    /\ F_root_quadtree_reference \in BOOLEAN
    /\ F_childrens = <<>>
    /\ child_BUILT = [c \in Childs |-> FALSE]
    /\ F_BLOCKING_SCREEN_BUFFER_UPDATE = 0
    /\ applied_layout = NoLayout
    /\ layout_instance = [l \in LayoutStyles |-> NoLayout]
    /\ child_added_connections = <<>>
    /\ sorted_instance_childs = [l \in LayoutStyles |-> <<>>]
    /\ horizontal_alignment \in {[l \in LayoutStyles |-> IF l \in Styled THEN h ELSE "LEFT"] :
                                   h \in ConstructedAlignments}
    /\ vertical_alignment = [l \in LayoutStyles |-> "TOP"]
    /\ fill_direction = [l \in LayoutStyles |-> "HORIZONTAL"]
    /\ child_overrides = [c \in Childs |-> [position |-> None, anchor_point |-> None]]
    /\ style_writes = 0
    /\ layout_raised = NoError
    /\ layout_last = [op |-> "init", l |-> NoLayout, passed |-> <<>>,
                      style |-> [horizontal_alignment |-> "LEFT", vertical_alignment |-> "TOP",
                                 fill_direction |-> "HORIZONTAL"]]
    /\ layout_calls = <<>>
    /\ G_applied_layout = NoLayout

\* child.position: the override if there is one (a UDim2 is always true),
\* else the constructor's UDim2(0, 0, 0, 0)
child_position(overrides, c) == Or(overrides[c].position, <<0, 0, 0, 0>>)

\* child._add_property_override("position", UDim2(0, x, 0, y))
override_position(overrides, c, x, y) ==
    [overrides EXCEPT ![c].position = <<0, x, 0, y>>]

RECURSIVE center_row(_, _, _, _, _)
\* HorizontalAlignment.CENTER, a child that fits: every child of the slice
\* childs[last_row_index : current_row_index + 1] moves left by half the
\* width of the child being placed
center_row(overrides, childs, from, to, child_width) ==
    IF from > to \/ from > Len(childs) THEN overrides
    ELSE LET c == childs[from]
             pos == child_position(overrides, c)
         IN  center_row(override_position(overrides, c, pos[2] - child_width \div 2, pos[4]),
                        childs, from + 1, to, child_width)

\* a row that is also left when the child fills it exactly
row_wraps_when_full(row_width, child_width, parent_width) ==
    row_width + child_width >= parent_width

\* current_row_width + child_width > parent_instance_width
row_wraps(row_width, child_width, parent_width) == row_width + child_width > parent_width

\* lines 214-257: the primary-axis offset of the child and the new row
\* accumulators; a is the record of the loop's local variables
horizontal_step(a, align, childs, child_width, parent_width) ==
    LET wraps == row_wraps(a.current_row_width, child_width, parent_width)
        wrapped == [a EXCEPT !.current_row_width = child_width,
                             !.current_row_height = a.current_row_height + a.largest_child_height]
        fits == [a EXCEPT !.current_row_width = a.current_row_width + child_width]
    IN  CASE align = "LEFT" ->
                 IF wraps THEN [wrapped EXCEPT !.x = 0]
                 ELSE [fits EXCEPT !.x = a.current_row_width]
          [] align = "CENTER" ->
                 IF wraps
                 THEN [wrapped EXCEPT !.x = (parent_width - child_width) \div 2,
                                      !.last_row_index = a.current_row_index]
                 ELSE [fits EXCEPT
                          !.overrides = center_row(a.overrides, childs, a.last_row_index + 1,
                                                   a.current_row_index + 1, child_width),
                          !.x = (parent_width - child_width + a.current_row_width) \div 2]
          [] align = "RIGHT" ->
                 IF wraps THEN [wrapped EXCEPT !.x = parent_width - child_width]
                 ELSE [fits EXCEPT !.x = parent_width - a.current_row_width - child_width]

\* lines 270-271: the largest-child accumulators after a child; nothing
\* resets them when a row is left
row_accumulators(a, child_width, child_height) ==
    [a EXCEPT !.largest_child_width = Max(@, child_width),
              !.largest_child_height = Max(@, child_height)]

\* the decorator _update_screen_buffer after a call on child c of F, the
\* container's counter being counter: F is cleared and drawn when the child
\* is built and not blocked
container_redraw(c, counter) ==
    IF child_BUILT[c] /\ ~(counter > 0) THEN <<"clear", "draw">> ELSE <<>>

RECURSIVE flow(_, _, _, _, _, _)
\* the loop of __layout_order_manager over childs, from index i (from 1),
\* for a container of absolute size container whose children have the
\* absolute sizes sizes
flow(a, style, childs, i, container, sizes) ==
    IF i > Len(childs) THEN a
    ELSE LET c == childs[i]
             child_width == sizes[c][1]
             child_height == sizes[c][2]
             vertical == style.fill_direction = "VERTICAL"
             parent_width == IF vertical THEN container[2] ELSE container[1]
             parent_height == IF vertical THEN container[1] ELSE container[2]
             blocked == [a EXCEPT !.counter = Max(0, @ + 1),
                                  !.calls = @ \o container_redraw(c, Max(0, a.counter + 1))]
             h == horizontal_step(blocked, style.horizontal_alignment, childs, child_width,
                                  parent_width)
             y == IF style.vertical_alignment = "TOP"
                  THEN h.current_row_height
                  ELSE parent_height - child_height - h.current_row_height
             acc == row_accumulators([h EXCEPT !.current_row_index = @ + 1],
                                     child_width, child_height)
             placed == [acc EXCEPT
                           !.overrides = IF vertical
                                         THEN override_position(h.overrides, c, y, h.x)
                                         ELSE override_position(h.overrides, c, h.x, y),
                           !.calls = @ \o container_redraw(c, h.counter)]
         IN  IF style.vertical_alignment = "CENTER"
             THEN [h EXCEPT !.raised = "AssertionError"]
             ELSE flow(placed, style, childs, i + 1, container, sizes)

\* the loop for the Frame F and the current sizes of its children
layout_childs(a, style, childs, i) == flow(a, style, childs, i, ContainerSize, child_size)

RECURSIVE unblock_childs(_, _, _)
\* lines 278-279: child.BLOCKING_SCREEN_BUFFER_UPDATE = False for every child,
\* from index i; st holds the container's counter and the calls so far
unblock_childs(st, childs, i) ==
    IF i > Len(childs) THEN st
    ELSE LET counter == Max(0, st.counter - 1)
         IN  unblock_childs([counter |-> counter,
                             calls |-> st.calls \o container_redraw(childs[i], counter)],
                            childs, i + 1)

\* PyGuiListLayout.__layout_order_manager(childs) of a layout with the given
\* instance and style: the child overrides and the container's block counter
\* after it, the clear() and draw() calls on the container after a "pass"
\* entry, and what it raised
layout_order_manager(instance, style, childs, overrides, counter) ==
    IF instance = NoLayout
    THEN \* self.instance is None at line 196
         [overrides |-> overrides, counter |-> counter, calls |-> <<"pass">>,
          raised |-> "AttributeError"]
    ELSE LET a == layout_childs(
                      [largest_child_width |-> 0, largest_child_height |-> 0,
                       current_row_width |-> 0, current_row_height |-> 0,
                       last_row_index |-> 0, current_row_index |-> 0, x |-> 0,
                       overrides |-> overrides, counter |-> counter, calls |-> <<"pass">>,
                       raised |-> NoError],
                      style, childs, 1)
             unblocked == unblock_childs([counter |-> a.counter, calls |-> a.calls], childs, 1)
         IN  IF a.raised = NoError
             THEN [overrides |-> a.overrides, counter |-> unblocked.counter,
                   calls |-> unblocked.calls \o <<"clear", "draw">>, raised |-> NoError]
             ELSE [overrides |-> a.overrides, counter |-> a.counter, calls |-> a.calls,
                   raised |-> a.raised]

\* the style of layout l as its getters return it
Style(l) ==
    [horizontal_alignment |-> horizontal_alignment[l],
     vertical_alignment |-> vertical_alignment[l],
     fill_direction |-> fill_direction[l]]

RECURSIVE InsertByLayoutOrder(_, _)
InsertByLayoutOrder(s, c) ==
    IF s = <<>> THEN <<c>>
    ELSE IF layout_order[Head(s)] <= layout_order[c]
         THEN <<Head(s)>> \o InsertByLayoutOrder(Tail(s), c)
         ELSE <<c>> \o s

RECURSIVE _sort_instance_childs(_)
\* sorted(self._sorted_instance_childs, key=lambda child: child.layout_order)
_sort_instance_childs(s) ==
    IF s = <<>> THEN <<>>
    ELSE InsertByLayoutOrder(_sort_instance_childs(SubSeq(s, 1, Len(s) - 1)), s[Len(s)])

\* PyGuiListLayout.__on_layout_instance_child_added
on_layout_instance_child_added(overrides, c) ==
    [overrides EXCEPT ![c] = [position |-> <<0, 0, 0, 0>>, anchor_point |-> <<0, 0>>]]

RECURSIVE on_childs_added(_, _)
\* the loop of apply_layout over the children the container already has
on_childs_added(overrides, childs) ==
    IF childs = <<>> THEN overrides
    ELSE on_childs_added(on_layout_instance_child_added(overrides, Head(childs)), Tail(childs))

\* the redraws of the two _add_property_override calls of
\* __on_layout_instance_child_added
on_layout_instance_child_added_calls(c, counter) ==
    container_redraw(c, counter) \o container_redraw(c, counter)

RECURSIVE on_childs_added_calls(_, _)
on_childs_added_calls(childs, counter) ==
    IF childs = <<>> THEN <<>>
    ELSE on_layout_instance_child_added_calls(Head(childs), counter)
             \o on_childs_added_calls(Tail(childs), counter)

\* the record of the last layout operation: the layout, and the list and
\* style its flow pass ran over (an empty list when no pass ran)
LayoutLast(op, l, childs, style) == [op |-> op, l |-> l, passed |-> childs, style |-> style]

\* an apply_layout that accepts a second layout
layout_rejected_never(applied) == FALSE

\* if self.applied_layout is not None: raise
layout_rejected(applied) == applied # NoLayout

\* PyGuiLayoutContainer.apply_layout on F
apply_layout(l) ==
    /\ layout_instance' = [layout_instance EXCEPT ![l] = "F"]
    /\ UNCHANGED <<G_applied_layout, child_size, layout_order, F_root_quadtree_reference, F_childrens, child_BUILT,
                   horizontal_alignment, vertical_alignment, fill_direction, style_writes>>
    /\ IF layout_rejected(applied_layout)
       THEN /\ layout_raised' = "Exception"
            /\ layout_last' = LayoutLast("apply_layout", l, <<>>, Style(l))
            /\ layout_calls' = <<>>
            /\ UNCHANGED <<applied_layout, child_added_connections, sorted_instance_childs,
                           child_overrides, F_BLOCKING_SCREEN_BUFFER_UPDATE>>
       ELSE LET childs == _sort_instance_childs(sorted_instance_childs[l] \o F_childrens)
            IN  \E pass \in {layout_order_manager("F", Style(l), childs,
                                                    on_childs_added(child_overrides, F_childrens),
                                                    F_BLOCKING_SCREEN_BUFFER_UPDATE)} :
                /\ applied_layout' = l
                /\ child_added_connections' = <<l>> \o child_added_connections
                /\ sorted_instance_childs' = [sorted_instance_childs EXCEPT ![l] = childs]
                /\ child_overrides' = pass.overrides
                /\ F_BLOCKING_SCREEN_BUFFER_UPDATE' = pass.counter
                /\ layout_raised' = pass.raised
                /\ layout_last' = LayoutLast("apply_layout", l, childs, Style(l))
                /\ layout_calls' = on_childs_added_calls(F_childrens,
                                                          F_BLOCKING_SCREEN_BUFFER_UPDATE)
                                        \o pass.calls

\* PyGuiLayoutContainer.apply_layout on the Frame G, which has no children
\* and the size of F
G_apply_layout(l) ==
    /\ layout_instance' = [layout_instance EXCEPT ![l] = "G"]
    /\ UNCHANGED <<applied_layout, child_added_connections, child_size, layout_order,
                   F_root_quadtree_reference, F_childrens, child_BUILT, horizontal_alignment,
                   vertical_alignment, fill_direction, style_writes>>
    /\ IF layout_rejected(G_applied_layout)
       THEN /\ layout_raised' = "Exception"
            /\ layout_last' = LayoutLast("G.apply_layout", l, <<>>, Style(l))
            /\ layout_calls' = <<>>
            /\ UNCHANGED <<G_applied_layout, sorted_instance_childs, child_overrides,
                           F_BLOCKING_SCREEN_BUFFER_UPDATE>>
       ELSE LET childs == _sort_instance_childs(sorted_instance_childs[l])
            IN  \E pass \in {layout_order_manager("G", Style(l), childs, child_overrides,
                                                    F_BLOCKING_SCREEN_BUFFER_UPDATE)} :
                /\ G_applied_layout' = l
                /\ sorted_instance_childs' = [sorted_instance_childs EXCEPT ![l] = childs]
                /\ child_overrides' = pass.overrides
                /\ F_BLOCKING_SCREEN_BUFFER_UPDATE' = pass.counter
                /\ layout_raised' = pass.raised
                /\ layout_last' = LayoutLast("G.apply_layout", l, childs, Style(l))
                /\ layout_calls' = pass.calls

\* PyGuiLayoutContainer.apply_layout of the grid layout g on F
grid_apply_layout(g) ==
    /\ layout_instance' = [layout_instance EXCEPT ![g] = "F"]
    /\ UNCHANGED <<G_applied_layout, child_size, layout_order, F_root_quadtree_reference,
                   F_childrens, child_BUILT, horizontal_alignment, vertical_alignment,
                   fill_direction, style_writes, child_overrides,
                   F_BLOCKING_SCREEN_BUFFER_UPDATE>>
    /\ IF layout_rejected(applied_layout)
       THEN /\ layout_raised' = "Exception"
            /\ layout_last' = LayoutLast("grid_apply_layout", g, <<>>, Style(g))
            /\ layout_calls' = <<>>
            /\ UNCHANGED <<applied_layout, child_added_connections, sorted_instance_childs>>
       ELSE /\ applied_layout' = g
            /\ child_added_connections' = <<g>> \o child_added_connections
            /\ IF F_childrens # <<>>
               THEN \* lines 73-75: the first child is appended, then the
                    \* default hook 'lambda: None' is called with it
                    /\ sorted_instance_childs' =
                           [sorted_instance_childs EXCEPT ![g] = Append(@, Head(F_childrens))]
                    /\ layout_raised' = "TypeError"
                    /\ layout_last' = LayoutLast("grid_apply_layout", g, <<>>, Style(g))
                    /\ layout_calls' = <<>>
               ELSE \* lines 77-84: sort, _on_layout_applied, then the
                    \* order manager, which does nothing, on the sorted list
                    /\ sorted_instance_childs' =
                           [sorted_instance_childs EXCEPT ![g] = _sort_instance_childs(@)]
                    /\ layout_raised' = NoError
                    /\ layout_last' = LayoutLast("grid_apply_layout", g,
                                                 _sort_instance_childs(sorted_instance_childs[g]),
                                                 Style(g))
                    /\ layout_calls' = <<"pass">>

RECURSIVE fire_child_added(_, _, _)
\* F.child_added.fire(c): the _on_layout_instance_child_added of every
\* connected layout, most recent connection first, up to the first that raises
fire_child_added(connections, st, c) ==
    IF connections = <<>> \/ st.raised # NoError THEN st
    ELSE LET l == Head(connections)
             childs == _sort_instance_childs(Append(st.sorted[l], c))
             pass == layout_order_manager(layout_instance[l], Style(l), childs,
                                          on_layout_instance_child_added(st.overrides, c),
                                          st.counter)
         IN  IF l \in GridLayouts
             THEN \* the hook of a grid layout is the base class's default,
                  \* 'lambda: None', called with the child: it raises before
                  \* the decorator's call of the order manager
                  [st EXCEPT !.sorted = [st.sorted EXCEPT ![l] = childs],
                             !.raised = "TypeError", !.l = l, !.passed = <<>>]
             ELSE
             fire_child_added(Tail(connections),
                              [sorted |-> [st.sorted EXCEPT ![l] = childs],
                               overrides |-> pass.overrides, counter |-> pass.counter,
                               calls |-> st.calls
                                             \o on_layout_instance_child_added_calls(c, st.counter)
                                             \o pass.calls,
                               raised |-> pass.raised, l |-> l, passed |-> childs],
                              c)

\* PyGuiInstance.build of child c of F
child_build(c) ==
    /\ UNCHANGED <<G_applied_layout, child_size, layout_order, F_root_quadtree_reference, applied_layout,
                   layout_instance, child_added_connections, horizontal_alignment,
                   vertical_alignment, fill_direction, style_writes>>
    /\ IF child_BUILT[c]
       THEN \* line 204: returns at once
            UNCHANGED <<F_childrens, child_BUILT, sorted_instance_childs, child_overrides,
                        F_BLOCKING_SCREEN_BUFFER_UPDATE, layout_raised, layout_last,
                        layout_calls>>
       ELSE /\ F_childrens' = IF InList(F_childrens, c) THEN F_childrens
                              ELSE Append(F_childrens, c)
            /\ IF ~F_root_quadtree_reference
               THEN \* line 215 raises: child_added is not fired
                    /\ layout_raised' = "AttributeError"
                    /\ layout_last' = LayoutLast("build", NoLayout, <<>>, Style("L1"))
                    /\ layout_calls' = <<>>
                    /\ UNCHANGED <<child_BUILT, sorted_instance_childs, child_overrides,
                                   F_BLOCKING_SCREEN_BUFFER_UPDATE>>
               ELSE \E st \in {fire_child_added(
                                  child_added_connections,
                                  [sorted |-> sorted_instance_childs,
                                   overrides |-> child_overrides,
                                   counter |-> F_BLOCKING_SCREEN_BUFFER_UPDATE,
                                   calls |-> <<>>,
                                   raised |-> NoError, l |-> NoLayout, passed |-> <<>>],
                                  c)} :
                        /\ \A l \in LayoutStyles : Len(st.sorted[l]) <= MaxListed
                        /\ sorted_instance_childs' = st.sorted
                        /\ child_overrides' = st.overrides
                        /\ F_BLOCKING_SCREEN_BUFFER_UPDATE' = st.counter
                        /\ layout_raised' = st.raised
                        /\ layout_calls' = st.calls
                        /\ child_BUILT' = [child_BUILT EXCEPT ![c] = (st.raised = NoError)]
                        /\ layout_last' =
                               LayoutLast("build", st.l, st.passed,
                                          Style(IF st.l = NoLayout THEN "L1" ELSE st.l))

\* the setters of horizontal_alignment, vertical_alignment and
\* fill_direction, each wrapped by _update_layout_order
style_setter(l, field, value) ==
    /\ style_writes' = style_writes + 1
    /\ horizontal_alignment' = IF field = "horizontal_alignment"
                               THEN [horizontal_alignment EXCEPT ![l] = value]
                               ELSE horizontal_alignment
    /\ vertical_alignment' = IF field = "vertical_alignment"
                             THEN [vertical_alignment EXCEPT ![l] = value]
                             ELSE vertical_alignment
    /\ fill_direction' = IF field = "fill_direction"
                         THEN [fill_direction EXCEPT ![l] = value]
                         ELSE fill_direction
    /\ LET style == [horizontal_alignment |-> horizontal_alignment'[l],
                     vertical_alignment |-> vertical_alignment'[l],
                     fill_direction |-> fill_direction'[l]]
       IN  \E pass \in {layout_order_manager(layout_instance[l], style,
                                               sorted_instance_childs[l], child_overrides,
                                               F_BLOCKING_SCREEN_BUFFER_UPDATE)} :
           /\ child_overrides' = pass.overrides
           /\ F_BLOCKING_SCREEN_BUFFER_UPDATE' = pass.counter
           /\ layout_raised' = pass.raised
           /\ layout_calls' = pass.calls
           /\ layout_last' = LayoutLast(field, l,
                                        IF layout_instance[l] = NoLayout THEN <<>>
                                        ELSE sorted_instance_childs[l],
                                        style)
    /\ UNCHANGED <<G_applied_layout, child_size, layout_order, F_root_quadtree_reference, F_childrens, child_BUILT,
                   applied_layout, layout_instance, child_added_connections,
                   sorted_instance_childs>>

RECURSIVE list_remove(_, _)
\* list.remove(c): the list without the first entry equal to c
list_remove(s, c) ==
    IF s = <<>> THEN <<>>
    ELSE IF Head(s) = c THEN Tail(s)
         ELSE <<Head(s)>> \o list_remove(Tail(s), c)

\* F.child_removed.fire(c): the handler connected by apply_layout removes c
\* from the list and sorts it, then calls the layout's bound hook with two
\* arguments, which raises before the overrides are touched and before the
\* decorator's flow pass
fire_child_removed(c) ==
    /\ layout_last' = LayoutLast("child_removed",
                                 IF child_added_connections = <<>> THEN NoLayout
                                 ELSE Head(child_added_connections),
                                 <<>>, Style("L1"))
    /\ layout_calls' = <<>>
    /\ UNCHANGED <<G_applied_layout, child_size, layout_order, F_root_quadtree_reference, F_childrens, child_BUILT,
                   F_BLOCKING_SCREEN_BUFFER_UPDATE, applied_layout, layout_instance,
                   child_added_connections, horizontal_alignment, vertical_alignment,
                   fill_direction, child_overrides, style_writes>>
    /\ IF child_added_connections = <<>>
       THEN \* only _sort_childrens is connected
            /\ layout_raised' = NoError
            /\ UNCHANGED sorted_instance_childs
       ELSE LET l == Head(child_added_connections)
            IN  IF ~InList(sorted_instance_childs[l], c)
                THEN \* list.remove(x): x not in list
                     /\ layout_raised' = "ValueError"
                     /\ UNCHANGED sorted_instance_childs
                ELSE /\ layout_raised' = "TypeError"
                     /\ sorted_instance_childs' =
                            [sorted_instance_childs EXCEPT
                                ![l] = _sort_instance_childs(list_remove(@, c))]

\* the values the program assigns to a child's layout_order
OrderValues == {0, 2}

MaxOrderWrites == 1

\* how many children have a layout_order that a setter stored
OrderWrites ==
    Cardinality({c \in Childs : \A constructed \in LayoutOrders : layout_order[c] # constructed[c]})

\* PyGuiInstance.layout_order (setter) of child c: the value is stored, then
\* _invoke_property_change_listener("layout_order") fails, as __init__
\* registers no listener of that name
layout_order_setter(c, value) ==
    /\ layout_order' = [layout_order EXCEPT ![c] = value]
    /\ layout_raised' = "AssertionError"
    /\ layout_last' = LayoutLast("layout_order", NoLayout, <<>>, Style("L1"))
    /\ layout_calls' = <<>>
    /\ UNCHANGED <<G_applied_layout, child_size, F_root_quadtree_reference, F_childrens, child_BUILT,
                   F_BLOCKING_SCREEN_BUFFER_UPDATE, applied_layout, layout_instance,
                   child_added_connections, sorted_instance_childs, horizontal_alignment,
                   vertical_alignment, fill_direction, child_overrides, style_writes>>

StyleValues(field) ==
    CASE field = "horizontal_alignment" -> HorizontalAlignments
      [] field = "vertical_alignment" -> VerticalAlignments
      [] OTHER -> FillDirections

\* the layout variables of a program that makes no layout
NoLayouts ==
    /\ child_size = [c \in Childs |-> <<40, 10>>]
    /\ horizontal_alignment = [l \in LayoutStyles |-> "LEFT"]
    /\ ~F_root_quadtree_reference

(***************************************************************************)
(* utilities/quadtree.py: the Quadtree of a root, as the map from the path *)
(* of each node that exists (the quadrant numbers from the root, <<>> for  *)
(* the root) to the list _objects of that node.  A Rect is <<x, y, w, h>>, *)
(* an item is a record of its identity and its rect.                       *)
(***************************************************************************)
CAPACITY == 6
MAX_DEPTH == 10

\* the display surface of the root node: Rect(0, 0, *get_size())
RootRect == <<0, 0, 2048, 2048>>

\* seven rects that do not overlap: one inside each quadrant of the root and
\* three across the lines that separate the quadrants
SpreadRects ==
    {<<0, 0, 512, 512>>, <<1536, 0, 512, 512>>, <<0, 1536, 512, 512>>,
     <<1536, 1536, 512, 512>>, <<768, 0, 512, 512>>, <<0, 768, 512, 512>>,
     <<768, 768, 512, 512>>}

\* a rect of one pixel in the corner of the root, and the rect of the root
TinyRect == <<0, 0, 1, 1>>
StackedRects == {TinyRect, RootRect}

MaxStacked == 67

\* how many items of rect r the program of each scenario inserts
Copies(scenario, r) ==
    CASE scenario = "spread" /\ r \in SpreadRects -> 1
      [] scenario = "stacked" /\ r = TinyRect -> MaxStacked
      [] scenario = "stacked" /\ r = RootRect -> 1
      [] OTHER -> 0

InitQuadtree ==
    /\ qt_scenario \in {"spread", "stacked"}
    /\ qt_objects = [path \in {<<>>} |-> <<>>]
    /\ qt_inserted = <<>>

\* pygame's Rect.contains
contains(r, a) ==
    /\ r[1] <= a[1] /\ r[2] <= a[2]
    /\ r[1] + r[3] >= a[1] + a[3] /\ r[2] + r[4] >= a[2] + a[4]
    /\ r[1] + r[3] > a[1] /\ r[2] + r[4] > a[2]

\* Rect(...) of a float: the fraction is dropped; center - size / 2 has the
\* fraction one half when the size is odd
half_below(corner, size) ==
    IF size % 2 = 0 THEN corner ELSE Max(0, corner - 1)

\* Quadtree.subdivide: the rect of quadrant k (0..3) of a node of rect r
quadrant_rect(r, k) ==
    LET center_x == r[1] + r[3] \div 2
        center_y == r[2] + r[4] \div 2
        top_left_x == half_below(center_x - r[3] \div 2, r[3])
        top_left_y == half_below(center_y - r[4] \div 2, r[4])
    IN  <<IF k \in {0, 2} THEN top_left_x ELSE center_x,
          IF k \in {0, 1} THEN top_left_y ELSE center_y,
          r[3] \div 2, r[4] \div 2>>

RECURSIVE node_rect(_)
\* self._rect of the node at a path
node_rect(path) ==
    IF path = <<>> THEN RootRect
    ELSE quadrant_rect(node_rect(SubSeq(path, 1, Len(path) - 1)), path[Len(path)])

\* whether the node at a path has _quadrants
subdivided(objects, path) == Append(path, 0) \in DOMAIN objects

\* Quadtree.subdivide
subdivide(objects, path) ==
    LET quadrants == {Append(path, k) : k \in 0..3}
    IN  [p \in DOMAIN objects \cup quadrants |->
            IF p \in DOMAIN objects THEN objects[p] ELSE <<>>]

\* len(self._objects) < CAPACITY or self._depth > MAX_DEPTH
keeps(objects, path) ==
    Len(objects[path]) < CAPACITY \/ Len(path) > MAX_DEPTH

RECURSIVE insert(_, _, _)
RECURSIVE insert_quadrants(_, _, _, _)

\* self._quadrants[k].insert(item) for k = from..3, in that order
insert_quadrants(objects, path, item, from) ==
    IF from > 3 THEN objects
    ELSE insert_quadrants(insert(objects, Append(path, from), item), path, item, from + 1)

\* Quadtree.insert on the node at a path
insert(objects, path, item) ==
    IF ~contains(node_rect(path), item.rect) THEN objects
    ELSE IF keeps(objects, path)
         THEN [objects EXCEPT ![path] = Append(@, item)]
         ELSE insert_quadrants(IF subdivided(objects, path) THEN objects
                               ELSE subdivide(objects, path),
                               path, item, 0)

RECURSIVE query(_, _, _)
RECURSIVE query_quadrants(_, _, _, _)

query_quadrants(objects, path, rect, from) ==
    IF from > 3 \/ ~subdivided(objects, path) THEN <<>>
    ELSE query(objects, Append(path, from), rect)
             \o query_quadrants(objects, path, rect, from + 1)

\* Quadtree.query on the node at a path
query(objects, path, rect) ==
    IF ~contains(node_rect(path), rect) THEN <<>>
    ELSE SelectSeq(objects[path], LAMBDA item : contains(item.rect, rect))
             \o query_quadrants(objects, path, rect, 0)

\* how many of the inserted items have rect r
Inserted(r) == Cardinality({i \in DOMAIN qt_inserted : qt_inserted[i].rect = r})

\* root.insert(QuadTreeItem(...)) of a new item of rect r
quadtree_insert(r) ==
    /\ Inserted(r) < Copies(qt_scenario, r)
    /\ LET item == [id |-> Len(qt_inserted) + 1, rect |-> r]
       IN  /\ qt_objects' = insert(qt_objects, <<>>, item)
           /\ qt_inserted' = Append(qt_inserted, item)
    /\ UNCHANGED qt_scenario

\* Quadtree.reset on the root
quadtree_reset ==
    /\ qt_inserted # <<>>
    /\ qt_objects' = [path \in {<<>>} |-> <<>>]
    /\ qt_inserted' = <<>>
    /\ UNCHANGED qt_scenario

(***************************************************************************)
(* pyguilib.update: one frame.  Two roots, instantiated in this order,     *)
(* whose programs gave each root the _root_quadtree_reference that build() *)
(* reads; the widgets below them, their rects and which of them are labels *)
(* (the widgets that register an updater hook).                            *)
(***************************************************************************)
instantiated_pygui_instances == <<"PyGui", "PyGui2">>

FrameWidgets == {"A", "B", "C", "D"}

\* the parent constructor argument of the widgets of the frame
FrameParent(w) == IF w = "D" THEN "PyGui2" ELSE parent[w]

RECURSIVE FrameRoot(_)
FrameRoot(w) ==
    IF InList(instantiated_pygui_instances, w) THEN w ELSE FrameRoot(FrameParent(w))

\* TextLabel, ImageLabel, VideoLabel, TextBox: _add_instance_updater_handler
Labels == {"B", "C", "D"}

\* absolute_position and absolute_size of each widget: B lies inside its
\* parent A, and C, a child of the root, covers a corner of both
FrameRect(w) ==
    CASE w = "A" -> <<0, 0, 1024, 1024>>
      [] w = "B" -> <<0, 0, 512, 512>>
      [] w = "C" -> <<0, 0, 256, 256>>
      [] OTHER -> <<0, 0, 512, 512>>

\* pygame.mouse.get_pos()
MousePositions == {<<10, 10>>, <<600, 600>>, <<1500, 1500>>}

MOUSEMOTION == 1024
MOUSEBUTTONDOWN == 1025
MOUSEBUTTONUP == 1026

FrameEvents ==
    {[type |-> MOUSEMOTION, key |-> -1], [type |-> MOUSEBUTTONDOWN, key |-> -1],
     [type |-> MOUSEBUTTONUP, key |-> -1]}

MaxFrameEvents == 1

FrameBatches == UNION {[1..n -> FrameEvents] : n \in 0..MaxFrameEvents}

NoInstance == "None"

InitFrame ==
    /\ root_quadtree = [r \in {"PyGui", "PyGui2"} |-> [path \in {<<>>} |-> <<>>]]
    /\ frame_childrens = [w \in FrameWidgets \cup {"PyGui", "PyGui2"} |-> <<>>]
    /\ last_pygame_window_size = NoInstance
    /\ last_mouse_over_instance = NoInstance
    /\ current_mouse_over_instance = NoInstance
    /\ frame_log = <<>>
    /\ frame_mouse = <<0, 0>>
    /\ frame_raised = NoError

FrameBuilt(w) ==
    IF InList(instantiated_pygui_instances, w) THEN TRUE
    ELSE InList(frame_childrens[FrameParent(w)], w)

\* PyGuiInstance.build of a widget whose parent has the quadtree reference:
\* what a frame reads of it, the entry in _childrens and the item in the
\* quadtree of the root
frame_build(w) ==
    /\ ~FrameBuilt(w)
    /\ FrameBuilt(FrameParent(w))
    /\ frame_childrens' = [frame_childrens EXCEPT ![FrameParent(w)] = Append(@, w)]
    /\ root_quadtree' = [root_quadtree EXCEPT
                            ![FrameRoot(w)] = insert(@, <<>>, [id |-> w, rect |-> FrameRect(w)])]
    /\ frame_log' = <<>>
    /\ frame_raised' = NoError
    /\ UNCHANGED <<last_pygame_window_size, last_mouse_over_instance,
                   current_mouse_over_instance, frame_mouse>>

\* one call made during the frame
Entry(kind, w, signal) == [kind |-> kind, w |-> w, signal |-> signal]

RECURSIVE instance_update(_)
RECURSIVE childs_update(_)

\* for child in self._childrens.values(): child.update(events)
childs_update(childs) ==
    IF childs = <<>> THEN <<>>
    ELSE instance_update(Head(childs)) \o childs_update(Tail(childs))

\* PyGuiInstance.update: the updater hooks of the widget, then its children
instance_update(w) ==
    (IF w \in Labels THEN <<Entry("updater", w, "")>> ELSE <<>>)
        \o childs_update(frame_childrens[w])

\* the calls of a PyGuiInstance.update in which the updater hook of the
\* widget failing raises: nothing catches it, so the calls end with that hook
hooks_until(log, failing) ==
    LET at == {i \in DOMAIN log : log[i].w = failing}
    IN  IF at = {} THEN log
        ELSE SubSeq(log, 1, CHOOSE i \in at : \A j \in at : i <= j)

RECURSIVE pointer_events(_, _)
\* lines 81-88: the signal of each event of the frame
pointer_events(w, events) ==
    IF events = <<>> THEN <<>>
    ELSE (CASE Head(events).type = MOUSEMOTION -> <<Entry("signal", w, "mouse_moved")>>
            [] Head(events).type = MOUSEBUTTONDOWN -> <<Entry("signal", w, "mouse_button_down")>>
            [] Head(events).type = MOUSEBUTTONUP -> <<Entry("signal", w, "mouse_button_up")>>
            [] OTHER -> <<>>)
             \o pointer_events(w, Tail(events))

\* last_mouse_over_instance.mouse_leaving.fire() if there is one
mouse_leaving(w) ==
    IF w # NoInstance THEN <<Entry("signal", w, "mouse_leaving")>> ELSE <<>>

\* the widget the frame takes as hit: the last item of the query
hit(retrieved) == retrieved[Len(retrieved)].id

RECURSIVE roots_update(_, _, _, _, _)
\* lines 69-99: the loop over the roots, from root number i; st holds the
\* log, the two module globals and the exception that left the loop
roots_update(st, i, events, mouse, failing) ==
    IF i > Len(instantiated_pygui_instances) \/ st.raised # NoError THEN st
    ELSE LET pygui == instantiated_pygui_instances[i]
             retrieved_childs == query(root_quadtree[pygui], <<>>, <<mouse[1], mouse[2], 1, 1>>)
             deepest_retrieved_child == hit(retrieved_childs)
             pointed ==
                 [log |-> st.log
                          \o (IF st.current # deepest_retrieved_child
                              THEN mouse_leaving(st.last)
                                       \o <<Entry("signal", deepest_retrieved_child,
                                                  "mouse_entered")>>
                              ELSE <<>>)
                          \o pointer_events(deepest_retrieved_child, events),
                  last |-> st.current,
                  current |-> deepest_retrieved_child,
                  raised |-> NoError]
             away == [log |-> st.log \o mouse_leaving(st.last),
                      last |-> NoInstance, current |-> NoInstance, raised |-> NoError]
             after == IF Len(retrieved_childs) > 0 THEN pointed ELSE away
             hooks == instance_update(pygui)
             called == hooks_until(hooks, failing)
         IN  roots_update([after EXCEPT !.log = @ \o called,
                                        !.raised = IF InList(hooks, Entry("updater", failing, ""))
                                                   THEN "Exception" ELSE NoError],
                          i + 1, events, mouse, failing)

\* lines 55-61: every root is cleared and drawn when the window size is new
window_draws ==
    IF last_pygame_window_size = NoInstance
    THEN [i \in DOMAIN instantiated_pygui_instances |->
             Entry("draw", instantiated_pygui_instances[i], "")]
    ELSE <<>>

\* pyguilib.update(events) with the pointer at mouse, in a frame in which
\* the updater hook of the widget failing (if any) raises
update(events, mouse, failing) ==
    /\ action_service_update(events)
    /\ tween_service_update
    /\ LET st == roots_update(
                     [log |-> window_draws
                                  \o <<Entry("service", "", "action_service_update"),
                                       Entry("service", "", "tween_service_update")>>,
                      last |-> last_mouse_over_instance,
                      current |-> current_mouse_over_instance,
                      raised |-> NoError],
                     1, events, mouse, failing)
       IN  /\ frame_log' = st.log
           /\ frame_raised' = st.raised
           /\ last_mouse_over_instance' = st.last
           /\ current_mouse_over_instance' = st.current
    /\ last_pygame_window_size' = "size"
    /\ frame_mouse' = mouse
    /\ UNCHANGED <<root_quadtree, frame_childrens>>


(***************************************************************************)
(* The updater and drawer hooks of a widget (pygui_instance.py:144-148,    *)
(* 471-482, 517-518).                                                      *)
(***************************************************************************)
Hooks == {"h1", "h2", "h3"}

\* the index arguments the library's callers give: the default 0
\* (text_label.py:108-109) and 1 (text_box.py:211-212)
HookIndexes == {0, 1}

\* list.insert(i, x) for i >= 0
list_insert(s, i, x) ==
    LET k == IF i > Len(s) THEN Len(s) ELSE i
    IN  SubSeq(s, 1, k) \o <<x>> \o SubSeq(s, k + 1, Len(s))

InitHooks ==
    /\ instance_updaters = <<>>
    /\ instance_drawers = <<>>
    /\ updaters_registered = <<>>
    /\ drawers_registered = <<>>
    /\ hook_log = <<>>
    /\ hook_last = "init"

_add_instance_updater_handler(handler, index) ==
    /\ ~InList(instance_updaters, handler)
    /\ instance_updaters' = list_insert(instance_updaters, index, handler)
    /\ updaters_registered' = Append(updaters_registered, handler)
    /\ hook_last' = "_add_instance_updater_handler"
    /\ UNCHANGED <<instance_drawers, drawers_registered, hook_log>>

_add_instance_drawer_handler(handler, index) ==
    /\ ~InList(instance_drawers, handler)
    /\ instance_drawers' = list_insert(instance_drawers, index, handler)
    /\ drawers_registered' = Append(drawers_registered, handler)
    /\ hook_last' = "_add_instance_drawer_handler"
    /\ UNCHANGED <<instance_updaters, updaters_registered, hook_log>>

\* update(): for instance_updater in self.__instance_updaters: instance_updater(events)
hooks_update ==
    /\ hook_log' = instance_updaters
    /\ hook_last' = "update"
    /\ UNCHANGED <<instance_updaters, instance_drawers, updaters_registered, drawers_registered>>

\* draw() of a visible widget: for instance_drawer in self.__instance_drawers
hooks_draw ==
    /\ hook_log' = instance_drawers
    /\ hook_last' = "draw"
    /\ UNCHANGED <<instance_updaters, instance_drawers, updaters_registered, drawers_registered>>

(***************************************************************************)
(* PyGuiSignal and PyGuiConnection (utilities/signal.py): one signal and   *)
(* the connections made to it.  A callback is modelled by the connections  *)
(* it disconnects when it is invoked.                                      *)
(***************************************************************************)
Connections == {"k1", "k2", "k3"}
NoConnection == "None"

\* what a callback does: the connections it disconnects, in order
DisconnectLists(S) ==
    {<<>>} \cup {<<a>> : a \in S} \cup {q \in S \X S : q[1] # q[2]}

\* the callbacks of a fire: each disconnects one connection at most, or one
\* of them disconnects two and the others none
Scripts ==
    {script \in [Connections -> DisconnectLists(Connections)] :
        \/ \A k \in Connections : Len(script[k]) <= 1
        \/ \E k \in Connections : \A j \in Connections \ {k} : script[j] = <<>>}

InitSignal ==
    /\ handler_list_head = NoConnection
    /\ connection_next = [k \in Connections |-> NoConnection]
    /\ connection_connected = [k \in Connections |-> FALSE]
    /\ signal_connections = <<>>
    /\ signal_fired = <<>>
    /\ signal_last = [op |-> "init", c |-> NoConnection,
                      pre_connected |-> [k \in Connections |-> FALSE],
                      script |-> [k \in Connections |-> <<>>]]
    /\ signal_raised = NoError

\* the signal as a value: its head and the fields of its connections
TheSignal == [head |-> handler_list_head, next |-> connection_next,
              connected |-> connection_connected, raised |-> NoError]

RECURSIVE predecessor(_, _, _)
\* lines 39-42: while current._next != self: current = current._next;
\* NoConnection when the walk reads None._next
predecessor(sig, current, c) ==
    IF current = NoConnection THEN NoConnection
    ELSE IF sig.next[current] = c THEN current
    ELSE predecessor(sig, sig.next[current], c)

\* PyGuiConnection.disconnect on the signal sig
disconnect_of(sig, c) ==
    LET off == [sig EXCEPT !.connected[c] = FALSE]
    IN  IF sig.head = c THEN [off EXCEPT !.head = sig.next[c]]
        ELSE LET current == predecessor(sig, sig.head, c)
             IN  IF current = NoConnection THEN [off EXCEPT !.raised = "AttributeError"]
                 ELSE [off EXCEPT !.next[current] = sig.next[c]]

RECURSIVE run_callback(_, _)
\* item._callback(arguments): the disconnects of the callback, until one raises
run_callback(sig, todo) ==
    IF todo = <<>> THEN sig
    ELSE LET r == disconnect_of(sig, Head(todo))
         IN  IF r.raised # NoError THEN r ELSE run_callback(r, Tail(todo))

\* always invoke, connected or not
item_listed(sig, item) == TRUE

\* line 87: if item._connected
item_connected(sig, item) == sig.connected[item]

RECURSIVE fire_from(_, _, _, _)
\* lines 85-90: the loop of fire from item on
fire_from(sig, item, script, log) ==
    IF item = NoConnection THEN [sig |-> sig, log |-> log]
    ELSE IF item_connected(sig, item)
         THEN LET r == run_callback(sig, script[item])
              IN  IF r.raised # NoError THEN [sig |-> r, log |-> Append(log, item)]
                  ELSE fire_from(r, r.next[item], script, Append(log, item))
         ELSE fire_from(sig, sig.next[item], script, log)

NoScript == [k \in Connections |-> <<>>]

SignalLast(op, c, script) ==
    [op |-> op, c |-> c, pre_connected |-> connection_connected, script |-> script]

\* PyGuiSignal.connect, returning the connection c
connect(c) ==
    /\ ~InList(signal_connections, c)
    /\ signal_connections' = Append(signal_connections, c)
    /\ connection_connected' = [connection_connected EXCEPT ![c] = TRUE]
    /\ connection_next' = [connection_next EXCEPT ![c] = handler_list_head]
    /\ handler_list_head' = c
    /\ signal_last' = SignalLast("connect", c, NoScript)
    /\ signal_raised' = NoError
    /\ signal_fired' = <<>>

\* connection.disconnect() outside of a fire
disconnect(c) ==
    /\ InList(signal_connections, c)
    /\ \E r \in {disconnect_of(TheSignal, c)} :
           /\ handler_list_head' = r.head
           /\ connection_next' = r.next
           /\ connection_connected' = r.connected
           /\ signal_raised' = r.raised
    /\ signal_last' = SignalLast("disconnect", c, NoScript)
    /\ signal_fired' = <<>>
    /\ UNCHANGED signal_connections

\* PyGuiSignal.fire with callbacks that do what script says
fire(script) ==
    /\ \A k \in Connections :
           script[k] \in DisconnectLists({c \in Connections : InList(signal_connections, c)})
    /\ \A k \in Connections : ~InList(signal_connections, k) => script[k] = <<>>
    /\ \E r \in {fire_from(TheSignal, handler_list_head, script, <<>>)} :
           /\ handler_list_head' = r.sig.head
           /\ connection_next' = r.sig.next
           /\ connection_connected' = r.sig.connected
           /\ signal_raised' = r.sig.raised
           /\ signal_fired' = r.log
    /\ signal_last' = SignalLast("fire", NoConnection, script)
    /\ UNCHANGED signal_connections

(***************************************************************************)
(* TextBox focus (components/text_box.py:120-239).  The key bindings are   *)
(* made in the action service's binds_events_queue; the callback of a      *)
(* binding is modelled by the text box whose closure it is.                *)
(***************************************************************************)
TextBoxes == {"x", "y", "z", "n"}

\* the text_editable argument of the constructors
text_editable == [b \in TextBoxes |-> b # "n"]

\* lines 178-184: name, events, priority of the seven bind_action calls
\* (pygame's K_BACKSPACE, K_RETURN, K_LEFT, K_RIGHT, K_UP, K_DOWN, KEYDOWN)
InternalBinds ==
    << <<"backspace_pressed", {8}, 0>>, <<"return_pressed", {13}, 0>>,
       <<"left_arrow_pressed", {1073741904}, 0>>, <<"right_arrow_pressed", {1073741903}, 0>>,
       <<"up_arrow_pressed", {1073741906}, 0>>, <<"down_arrow_pressed", {1073741905}, 0>>,
       <<"text_input", {768}, 10>> >>

InitFocus ==
    /\ is_focused = [b \in TextBoxes |-> FALSE]
    /\ focus_raised = NoError
    /\ focus_last = [op |-> "init", b |-> NoInstance]

RECURSIVE bind_actions(_, _, _)
\* the bind_action calls of _text_box_focus_gained, until one raises
bind_actions(queue, binds, b) ==
    IF binds = <<>> THEN [queue |-> queue, raised |-> NoError]
    ELSE IF \E i \in DOMAIN queue : queue[i].name = Head(binds)[1]
         THEN [queue |-> queue, raised |-> "ValueError"]
         ELSE bind_actions(Append(queue, [name |-> Head(binds)[1], callback |-> b,
                                          events |-> Head(binds)[2],
                                          priority |-> bind_priority(Head(binds)[3], TRUE)]),
                           Tail(binds), b)

RECURSIVE unbind_actions(_, _)
\* the unbind_action calls of _text_box_focus_lost
unbind_actions(queue, binds) ==
    IF binds = <<>> THEN queue
    ELSE unbind_actions(SelectSeq(queue, LAMBDA bind : bind.name # Head(binds)[1]),
                        Tail(binds))

\* focus_gained.fire() if the box is editable and not focused
focus_gained(op, b) ==
    /\ focus_last' = [op |-> op, b |-> b]
    /\ IF text_editable[b] /\ ~is_focused[b]
       THEN \E r \in {bind_actions(binds_events_queue, InternalBinds, b)} :
                /\ is_focused' = [is_focused EXCEPT ![b] = TRUE]
                /\ binds_events_queue' = r.queue
                /\ focus_raised' = r.raised
       ELSE /\ focus_raised' = NoError
            /\ UNCHANGED <<is_focused, binds_events_queue>>
    /\ UNCHANGED <<events_batch, dispatched, action_last, action_raised>>

\* TextBox.capture_focus
capture_focus(b) == focus_gained("capture_focus", b)

\* b.mouse_button_down.fire(): _text_box_mouse_interaction calls capture_focus
text_box_mouse_button_down(b) == focus_gained("mouse_button_down", b)

\* TextBox.release_focus
release_focus(b) ==
    /\ focus_last' = [op |-> "release_focus", b |-> b]
    /\ focus_raised' = NoError
    /\ IF is_focused[b]
       THEN /\ is_focused' = [is_focused EXCEPT ![b] = FALSE]
            /\ binds_events_queue' = unbind_actions(binds_events_queue, InternalBinds)
       ELSE UNCHANGED <<is_focused, binds_events_queue>>
    /\ UNCHANGED <<events_batch, dispatched, action_last, action_raised>>

InitComponents == InitHooks /\ InitSignal /\ InitFocus

\* the quadtree variables of a program that inserts nothing
NoQuadtree == InitQuadtree /\ qt_scenario = "spread"

Init ==
    InitWidgets /\ InitActions /\ InitTweens /\ InitLayout /\ NoLayouts /\ NoQuadtree /\ InitFrame /\ InitComponents

\* the start of a program that lays out the children of F
InitLayouts ==
    InitWidgets /\ InitActions /\ InitTweens /\ InitLayout /\ NoQuadtree /\ InitFrame /\ InitComponents

\* the start of a program that inserts items into a Quadtree
InitQuadtrees ==
    InitWidgets /\ InitActions /\ InitTweens /\ InitLayout /\ NoLayouts /\ InitQuadtree /\ InitFrame /\ InitComponents


NextBuild ==
    \/ \E w \in Widgets : build(w) /\ UNCHANGED <<actionVars, tweenVars, layoutVars, quadVars, componentVars, frameVars>>
    \/ \E w \in Widgets, value \in NewNames : name_setter(w, value) /\ UNCHANGED <<actionVars, tweenVars, layoutVars, quadVars, componentVars, frameVars>>

\* what a program can do with the library's own operations on the tree
SpecBuild == Init /\ [][NextBuild]_vars

\* how many property operations a run of each specification makes
MaxOverrideWrites == 3
MaxRedrawWrites == 1

NextOverride ==
    \/ build("A") /\ UNCHANGED <<actionVars, tweenVars, layoutVars, quadVars, componentVars, frameVars>>
    \/ set_root_quadtree_reference("A") /\ UNCHANGED <<actionVars, tweenVars, layoutVars, quadVars, componentVars, frameVars>>
    \/ \E p \in OverridableProperties : \E v \in Values(p) :
           writes < MaxOverrideWrites /\ property_setter("A", p, v) /\ UNCHANGED <<actionVars, tweenVars, layoutVars, quadVars, componentVars, frameVars>>
    \/ \E p \in OverridableProperties : \E v \in Values(p) :
           writes < MaxOverrideWrites /\ _add_property_override("A", p, v)
               /\ UNCHANGED <<actionVars, tweenVars, layoutVars, quadVars, componentVars, frameVars>>
    \/ \E p \in OverridableProperties :
           writes < MaxOverrideWrites /\ _remove_property_override("A", p)
               /\ UNCHANGED <<actionVars, tweenVars, layoutVars, quadVars, componentVars, frameVars>>

\* the two layers of position, size and anchor_point of one widget
SpecOverride == Init /\ [][NextOverride]_vars

NextRedraw ==
    \/ \E w \in {"A", "B"} : build(w) /\ UNCHANGED <<actionVars, tweenVars, layoutVars, quadVars, componentVars, frameVars>>
    \/ set_root_quadtree_reference("A") /\ UNCHANGED <<actionVars, tweenVars, layoutVars, quadVars, componentVars, frameVars>>
    \/ \E w \in {"A", "B"}, p \in PropertyNames : \E v \in Values(p) :
           writes < MaxRedrawWrites /\ property_setter(w, p, v) /\ UNCHANGED <<actionVars, tweenVars, layoutVars, quadVars, componentVars, frameVars>>
    \/ \E w \in {"A", "B"}, value \in BOOLEAN :
           BLOCKING_SCREEN_BUFFER_UPDATE_setter(w, value) /\ UNCHANGED <<actionVars, tweenVars, layoutVars, quadVars, componentVars, frameVars>>

\* property writes and redraw blocking on a three-level tree being built
SpecRedraw == Init /\ [][NextRedraw]_vars

NextAction ==
    \/ \E n \in ActionNames, c \in ActionResults, e \in EventCodes, pr \in Priorities,
          internal \in BOOLEAN :
           bind_action(n, c, e, pr, internal) /\ UNCHANGED <<widgetVars, tweenVars, layoutVars, quadVars, componentVars, frameVars>>
    \/ \E n \in ActionNames : unbind_action(n) /\ UNCHANGED <<widgetVars, tweenVars, layoutVars, quadVars, componentVars, frameVars>>
    \/ \E events \in Batches : action_service_update(events) /\ UNCHANGED <<widgetVars, tweenVars, layoutVars, quadVars, componentVars, frameVars>>

\* binding, unbinding and dispatching
SpecAction == Init /\ [][NextAction]_vars

\* the widget variables the tween service leaves alone
tweenUntouched == <<childrens, BUILT, BLOCKING_SCREEN_BUFFER_UPDATE, root_quadtree_reference,
                    instance_depth, properties, properties_overrides, child_added_fired,
                    quadtree_inserts, writes, written, calls, raised, last>>

\* the Tween objects the program makes
Played == {"t1"}

NextTween ==
    \/ \E p \in {"border_size", "background_transparency"}, v \in TweenStartValues :
           /\ writes < MaxTweenWrites
           /\ property_setter("A", p, v)
           /\ tween_last' = ServiceLast("set")
           /\ tween_tick' = NoTick
           /\ tween_raised' = NoError
           /\ UNCHANGED <<actionVars, layoutVars, quadVars, componentVars, frameVars, tween_status, original_properties, start_time, end_time,
                          tween_ended_handlers, instantiated_tweens, clock>>
    \/ \E t \in Played : Tween(t) /\ UNCHANGED <<tweenUntouched, actionVars, layoutVars, quadVars, componentVars, frameVars>>
    \/ \E t \in Played : play(t) /\ UNCHANGED <<tweenUntouched, actionVars, layoutVars, quadVars, componentVars, frameVars>>
    \/ \E t \in Played : cancel(t) /\ UNCHANGED <<actionVars, layoutVars, quadVars, componentVars, frameVars>>
    \/ tween_service_update /\ UNCHANGED <<actionVars, layoutVars, quadVars, componentVars, frameVars>>
    \/ time_passes /\ UNCHANGED <<tweenUntouched, actionVars, layoutVars, quadVars, componentVars, frameVars>>

\* one tween on two properties of a widget, under a clock
SpecTween == Init /\ [][NextTween]_vars

NextTweenPair ==
    \/ \E t \in Tweens : Tween(t) /\ UNCHANGED <<tweenUntouched, actionVars, layoutVars, quadVars, componentVars, frameVars>>
    \/ \E t \in Tweens : play(t) /\ UNCHANGED <<tweenUntouched, actionVars, layoutVars, quadVars, componentVars, frameVars>>
    \/ tween_service_update /\ UNCHANGED <<actionVars, layoutVars, quadVars, componentVars, frameVars>>
    \/ time_passes /\ UNCHANGED <<tweenUntouched, actionVars, layoutVars, quadVars, componentVars, frameVars>>

\* two tweens on the same widget that are played and run to their end
SpecTweenPair == Init /\ [][NextTweenPair]_vars

NextTweenRedraw ==
    \/ set_root_quadtree_reference("A") /\ UNCHANGED <<actionVars, tweenVars, layoutVars, quadVars, componentVars, frameVars>>
    \/ build("A") /\ UNCHANGED <<actionVars, tweenVars, layoutVars, quadVars, componentVars, frameVars>>
    \/ \E t \in Played : Tween(t) /\ UNCHANGED <<tweenUntouched, actionVars, layoutVars, quadVars, componentVars, frameVars>>
    \/ \E t \in Played : play(t) /\ UNCHANGED <<tweenUntouched, actionVars, layoutVars, quadVars, componentVars, frameVars>>
    \/ \E t \in Played : cancel(t) /\ UNCHANGED <<actionVars, layoutVars, quadVars, componentVars, frameVars>>
    \/ tween_service_update /\ UNCHANGED <<actionVars, layoutVars, quadVars, componentVars, frameVars>>
    \/ time_passes /\ UNCHANGED <<tweenUntouched, actionVars, layoutVars, quadVars, componentVars, frameVars>>

\* one tween on a widget that gets built
SpecTweenRedraw == Init /\ [][NextTweenRedraw]_vars

NextTweenClock ==
    \/ \E p \in {"border_size", "background_transparency"}, v \in TweenStartValues :
           /\ writes < MaxTweenWrites
           /\ property_setter("A", p, v)
           /\ tween_last' = ServiceLast("set")
           /\ tween_tick' = NoTick
           /\ tween_raised' = NoError
           /\ UNCHANGED <<actionVars, layoutVars, quadVars, componentVars, frameVars, tween_status,
                          original_properties, start_time, end_time, tween_ended_handlers,
                          instantiated_tweens, clock>>
    \/ \E t \in Played : Tween(t) /\ UNCHANGED <<tweenUntouched, actionVars, layoutVars, quadVars, componentVars, frameVars>>
    \/ \E t \in Played : play(t) /\ UNCHANGED <<tweenUntouched, actionVars, layoutVars, quadVars, componentVars, frameVars>>
    \/ tween_service_update /\ UNCHANGED <<actionVars, layoutVars, quadVars, componentVars, frameVars>>
    \/ time_passes /\ UNCHANGED <<tweenUntouched, actionVars, layoutVars, quadVars, componentVars, frameVars>>

\* one tween that is played and never canceled, under a clock
SpecTweenClock == Init /\ [][NextTweenClock]_vars

NextLayout ==
    \/ \E c \in Childs : child_build(c) /\ UNCHANGED <<widgetVars, actionVars, tweenVars, quadVars, componentVars, frameVars>>
    \/ \E l \in Layouts : apply_layout(l) /\ UNCHANGED <<widgetVars, actionVars, tweenVars, quadVars, componentVars, frameVars>>
    \/ \E l \in Styled, field \in {"horizontal_alignment", "vertical_alignment",
                                    "fill_direction"} :
           \E value \in StyleValues(field) :
               /\ style_writes < MaxStyleWrites
               /\ style_setter(l, field, value)
               /\ UNCHANGED <<widgetVars, actionVars, tweenVars, quadVars, componentVars, frameVars>>

\* children of a Frame and the list layouts applied to it
SpecLayout == InitLayouts /\ [][NextLayout]_vars

NextQuadtree ==
    \/ \E r \in SpreadRects \cup StackedRects :
           quadtree_insert(r) /\ UNCHANGED <<widgetVars, actionVars, tweenVars, layoutVars, frameVars, componentVars>>
    \/ quadtree_reset /\ UNCHANGED <<widgetVars, actionVars, tweenVars, layoutVars, frameVars, componentVars>>

\* items inserted into the Quadtree of a root
SpecQuadtree == InitQuadtrees /\ [][NextQuadtree]_vars

\* the widget whose updater hook raises in a frame, if any
Failing == {NoInstance, "B"}

NextFrame ==
    \/ \E w \in FrameWidgets :
           frame_build(w)
               /\ UNCHANGED <<widgetVars, actionVars, tweenVars, layoutVars, quadVars, componentVars>>
    \/ \E events \in FrameBatches, mouse \in MousePositions, failing \in Failing :
           update(events, mouse, failing) /\ UNCHANGED <<layoutVars, quadVars, componentVars>>

\* the frames of a program with two roots
SpecFrame == Init /\ [][NextFrame]_vars

\* the start of a program whose three children have the same size and whose
\* frame has the quadtree reference
InitReorder ==
    /\ InitLayouts
    /\ F_root_quadtree_reference
    /\ child_size = [c \in Childs |-> <<40, 10>>]

NextReorder ==
    \/ \E c \in Childs :
           child_build(c) /\ UNCHANGED <<widgetVars, actionVars, tweenVars, quadVars, componentVars, frameVars>>
    \/ \E l \in Styled :
           apply_layout(l) /\ UNCHANGED <<widgetVars, actionVars, tweenVars, quadVars, componentVars, frameVars>>
    \/ \E c \in Childs, value \in OrderValues :
           /\ OrderWrites < MaxOrderWrites
           /\ layout_order[c] # value
           /\ layout_order_setter(c, value)
           /\ UNCHANGED <<widgetVars, actionVars, tweenVars, quadVars, componentVars, frameVars>>
    \/ \E c \in Childs :
           fire_child_removed(c)
               /\ UNCHANGED <<widgetVars, actionVars, tweenVars, quadVars, componentVars, frameVars>>
    \/ \E l \in Styled, value \in FillDirections :
           /\ style_writes < MaxStyleWrites
           /\ style_setter(l, "fill_direction", value)
           /\ UNCHANGED <<widgetVars, actionVars, tweenVars, quadVars, componentVars, frameVars>>

\* a list layout whose children get a new layout_order
SpecReorder == InitReorder /\ [][NextReorder]_vars

\* the UDim2 and Vector2 values given to the widgets of the tree
GeometryUDim2 == {<<1, 0, 1, 0>>, <<2, 3, 1, -7>>}

GeometryValues(p) == IF p = "anchor_point" THEN Vector2Values ELSE GeometryUDim2

GeometryWidgets == {"PyGui", "A", "B"}

MaxGeometryWrites == 1

\* the tree PyGui > A > B constructed with position, size and anchor_point
\* arguments; the root has size UDim2(1, 0, 1, 0)
InitGeometry ==
    /\ InitActions /\ InitTweens /\ InitLayout /\ NoLayouts /\ NoQuadtree /\ InitFrame /\ InitComponents
    /\ childrens = [w \in Widgets |-> <<>>]
    /\ BUILT = [w \in Widgets |-> FALSE]
    /\ BLOCKING_SCREEN_BUFFER_UPDATE = [w \in Widgets |-> 0]
    /\ root_quadtree_reference = [w \in Widgets |-> FALSE]
    /\ instance_depth = [w \in Widgets |-> 0]
    /\ \E a_position \in GeometryUDim2, a_size \in GeometryUDim2, a_anchor \in Vector2Values,
          b_position \in GeometryUDim2, b_size \in GeometryUDim2, b_anchor \in Vector2Values :
           properties =
               [w \in Widgets |->
                   CASE w = "PyGui" -> [DefaultProperties EXCEPT !["size"] = <<1, 0, 1, 0>>]
                     [] w = "A" -> [DefaultProperties EXCEPT !["position"] = a_position,
                                        !["size"] = a_size, !["anchor_point"] = a_anchor]
                     [] w = "B" -> [DefaultProperties EXCEPT !["position"] = b_position,
                                        !["size"] = b_size, !["anchor_point"] = b_anchor]
                     [] OTHER -> DefaultProperties]
    /\ properties_overrides = [w \in Widgets |-> [p \in OverridableProperties |-> None]]
    /\ child_added_fired = [w \in Widgets |-> 0]
    /\ quadtree_inserts = [w \in Widgets |-> 0]
    /\ writes = 0
    /\ calls = <<>>
    /\ raised = NoError
    /\ written = [w \in Widgets |->
                     [p \in PropertyNames |-> [value |-> properties[w][p], overridden |-> FALSE]]]
    /\ last = [op |-> "init", w |-> NoParent, p |-> "", v |-> None, pre_built |-> FALSE,
               pre_attached |-> FALSE, pre_counter |-> 0]

NextGeometry ==
    \/ \E w \in GeometryWidgets, p \in OverridableProperties : \E v \in GeometryValues(p) :
           writes < MaxGeometryWrites /\ property_setter(w, p, v)
               /\ UNCHANGED <<actionVars, tweenVars, layoutVars, quadVars, componentVars, frameVars>>
    \/ \E w \in {"A", "B"}, p \in OverridableProperties : \E v \in GeometryValues(p) :
           writes < MaxGeometryWrites /\ _add_property_override(w, p, v)
               /\ UNCHANGED <<actionVars, tweenVars, layoutVars, quadVars, componentVars, frameVars>>
    \/ \E w \in {"A", "B"}, p \in OverridableProperties :
           writes < MaxGeometryWrites /\ _remove_property_override(w, p)
               /\ UNCHANGED <<actionVars, tweenVars, layoutVars, quadVars, componentVars, frameVars>>

\* reads of absolute_size and absolute_position on a three-level tree
SpecGeometry == InitGeometry /\ [][NextGeometry]_vars

NextContainers ==
    \/ \E c \in Childs :
           child_build(c) /\ UNCHANGED <<widgetVars, actionVars, tweenVars, quadVars, componentVars, frameVars>>
    \/ \E l \in Layouts :
           apply_layout(l) /\ UNCHANGED <<widgetVars, actionVars, tweenVars, quadVars, componentVars, frameVars>>
    \/ \E l \in Layouts :
           G_apply_layout(l) /\ UNCHANGED <<widgetVars, actionVars, tweenVars, quadVars, componentVars, frameVars>>

\* two layouts applied to two Frames
SpecContainers == InitReorder /\ [][NextContainers]_vars

NextGrid ==
    \/ \E c \in Childs :
           child_build(c) /\ UNCHANGED <<widgetVars, actionVars, tweenVars, quadVars, componentVars, frameVars>>
    \/ \E g \in GridLayouts :
           grid_apply_layout(g)
               /\ UNCHANGED <<widgetVars, actionVars, tweenVars, quadVars, componentVars, frameVars>>

\* a grid layout applied to a Frame whose children are being built
SpecGrid == InitLayouts /\ [][NextGrid]_vars

MaxDrawOrderWrites == 2

NextDrawOrder ==
    \/ \E w \in {"A", "B", "C"} :
           build(w) /\ UNCHANGED <<actionVars, tweenVars, layoutVars, quadVars, componentVars, frameVars>>
    \/ \E w \in {"A", "C"} :
           set_root_quadtree_reference(w)
               /\ UNCHANGED <<actionVars, tweenVars, layoutVars, quadVars, componentVars, frameVars>>
    \/ \E w \in {"A", "C"} : \E v \in Values("draw_order") :
           writes < MaxDrawOrderWrites /\ property_setter(w, "draw_order", v)
               /\ UNCHANGED <<actionVars, tweenVars, layoutVars, quadVars, componentVars, frameVars>>

\* draw_order writes on the children of the root while they are built
SpecDrawOrder == Init /\ [][NextDrawOrder]_vars

NextFocus ==
    \/ \E b \in TextBoxes :
           capture_focus(b)
               /\ UNCHANGED <<widgetVars, tweenVars, layoutVars, quadVars, frameVars, hookVars, signalVars>>
    \/ \E b \in TextBoxes :
           text_box_mouse_button_down(b)
               /\ UNCHANGED <<widgetVars, tweenVars, layoutVars, quadVars, frameVars, hookVars, signalVars>>
    \/ \E b \in TextBoxes :
           release_focus(b)
               /\ UNCHANGED <<widgetVars, tweenVars, layoutVars, quadVars, frameVars, hookVars, signalVars>>

\* text boxes that are clicked, focused and released
SpecFocus == Init /\ [][NextFocus]_vars

NextSignal ==
    \/ \E c \in Connections :
           connect(c) /\ UNCHANGED <<widgetVars, actionVars, tweenVars, layoutVars, quadVars, frameVars, hookVars, focusVars>>
    \/ \E c \in Connections :
           disconnect(c) /\ UNCHANGED <<widgetVars, actionVars, tweenVars, layoutVars, quadVars, frameVars, hookVars, focusVars>>
    \/ \E script \in Scripts :
           fire(script) /\ UNCHANGED <<widgetVars, actionVars, tweenVars, layoutVars, quadVars, frameVars, hookVars, focusVars>>

\* connections made to a signal, disconnected and fired
SpecSignal == Init /\ [][NextSignal]_vars

NextHooks ==
    \/ \E handler \in Hooks, index \in HookIndexes :
           _add_instance_updater_handler(handler, index)
               /\ UNCHANGED <<widgetVars, actionVars, tweenVars, layoutVars, quadVars, frameVars, signalVars, focusVars>>
    \/ \E handler \in Hooks, index \in HookIndexes :
           _add_instance_drawer_handler(handler, index)
               /\ UNCHANGED <<widgetVars, actionVars, tweenVars, layoutVars, quadVars, frameVars, signalVars, focusVars>>
    \/ hooks_update /\ UNCHANGED <<widgetVars, actionVars, tweenVars, layoutVars, quadVars, frameVars, signalVars, focusVars>>
    \/ hooks_draw /\ UNCHANGED <<widgetVars, actionVars, tweenVars, layoutVars, quadVars, frameVars, signalVars, focusVars>>

\* hooks registered on a widget that is updated and drawn
SpecHooks == Init /\ [][NextHooks]_vars

(***************************************************************************)
(* C1: build() on a not-yet-built widget whose parent is the root (or a    *)
(* built widget below the root) completes without error; on return the     *)
(* widget is in its parent's child collection, the parent's child-added    *)
(* signal has fired exactly once for it, it has been handed to the root's  *)
(* spatial index, it has been drawn once, and it is marked built.          *)
(***************************************************************************)
C1_BuildCompletes ==
    (/\ last.op = "build"
     /\ ~last.pre_built
     /\ parent[last.w] # NoParent
     /\ (parent[last.w] = PyGui \/ BUILT[parent[last.w]]))
    => (/\ raised = NoError
        /\ Entries(childrens[parent[last.w]], last.w) = 1
        /\ child_added_fired[last.w] = 1
        /\ quadtree_inserts[last.w] = 1
        /\ Cardinality({i \in DOMAIN calls : calls[i] = Call("draw", last.w, "", 0)}) = 1
        /\ BUILT[last.w])

(***************************************************************************)
(* C2: however often build() is called on a widget, the widget has at most *)
(* one entry in its parent's child collection, child-added has fired at    *)
(* most once for it, and a build() call made when the widget was already   *)
(* attached does nothing (no spatial-index insert, no clear, no draw).     *)
(***************************************************************************)
C2_BuildIdempotent ==
    \A w \in Widgets :
        parent[w] # NoParent =>
            /\ Entries(childrens[parent[w]], w) <= 1
            /\ child_added_fired[w] <= 1
            /\ (last.op = "build" /\ last.w = w /\ last.pre_attached) => calls = <<>>

(***************************************************************************)
(* C3: for position, size and anchor_point the getter returns the override *)
(* whenever one is installed, whatever its value, and the base value only  *)
(* when none is installed.                                                 *)
(***************************************************************************)
C3_GetterReturnsOverride ==
    \A w \in Widgets, p \in OverridableProperties :
        Get(properties, properties_overrides, w, p) =
            (IF properties_overrides[w][p] # None
             THEN properties_overrides[w][p]
             ELSE properties[w][p])

(***************************************************************************)
(* C4: adding, replacing or removing an override never changes the base    *)
(* value, which is the value last handed to the setter (also when that     *)
(* happened under an override); with no override installed the getter      *)
(* returns exactly that value.                                             *)
(***************************************************************************)
C4_OverrideRoundTrip ==
    \A w \in Widgets, p \in OverridableProperties :
        /\ properties[w][p] = written[w][p].value
        /\ properties_overrides[w][p] = None
               => Get(properties, properties_overrides, w, p) = written[w][p].value

\* an override was removed after the base value was rewritten under it
C4_Witness ==
    /\ last.op = "remove_override"
    /\ raised = NoError
    /\ written[last.w][last.p].overridden
    /\ written[last.w][last.p].value # DefaultProperties[last.p]
    /\ Get(properties, properties_overrides, last.w, last.p) = written[last.w][last.p].value

(***************************************************************************)
(* C5: a property write first stores the value, then fires the property's  *)
(* change signal exactly once, and then, if and only if the widget is      *)
(* built and its redraw is not blocked, makes exactly one clear() and then *)
(* one draw() call, both on the parent and none on the widget itself; a    *)
(* write on an unbuilt or blocked widget clears and draws nothing.         *)
(***************************************************************************)
Redraws(c) == SelectSeq(c, LAMBDA e : e.op \in {"clear", "draw", "blit"})

\* the clear() and draw() calls the operation makes itself
TopLevel(c) == SelectSeq(c, LAMBDA e : e.d = 0 /\ e.op \in {"clear", "draw"})

ParentRedraw(w) == <<Call("clear", parent[w], "", 0), Call("draw", parent[w], "", 0)>>

C5_SetterProtocol ==
    last.op = "set" =>
        /\ properties[last.w][last.p] = last.v
        /\ Len(calls) >= 2
        /\ calls[1] = Call("store", last.w, last.p, 0)
        /\ calls[2] = Call("fire", last.w, last.p, 0)
        /\ Cardinality({i \in DOMAIN calls : calls[i].op \in {"store", "fire"}}) = 2
        /\ IF BUILT[last.w] /\ BLOCKING_SCREEN_BUFFER_UPDATE[parent[last.w]] = 0
           THEN TopLevel(calls) = ParentRedraw(last.w)
           ELSE Redraws(calls) = <<>>

\* a write on a built, unblocked widget below a built parent
C5_Witness ==
    /\ last.op = "set"
    /\ BUILT[last.w]
    /\ BUILT[parent[last.w]]
    /\ BLOCKING_SCREEN_BUFFER_UPDATE[parent[last.w]] = 0
    /\ Len(calls) > 2

(***************************************************************************)
(* C6 as claimed: while the block counter of any ancestor of a built       *)
(* widget is above zero, a property write changes the value and clears and *)
(* draws nothing; when the widget's write of False returns the counter to  *)
(* zero, exactly one clear and draw occurs.                                *)
(***************************************************************************)
RECURSIVE Ancestors(_)
Ancestors(w) == IF parent[w] = NoParent THEN {} ELSE {parent[w]} \cup Ancestors(parent[w])

Binding(n) ==
    binds_events_queue[CHOOSE i \in DOMAIN binds_events_queue : binds_events_queue[i].name = n]

\* the turn of binding b for event k comes after invocation e
Before(e, k, b) ==
    \/ e.event < k
    \/ e.event = k /\ Binding(e.name).priority <= b.priority /\ e.name # b.name

Internal(b) == b.priority >= INTERNAL_PRIORITY_THRESHOLD

C8_InternalFirst ==
    action_last = "update" =>
        \A k \in DOMAIN events_batch, qi, qu \in DOMAIN binds_events_queue :
            LET bi == binds_events_queue[qi]
                bu == binds_events_queue[qu]
            IN  (/\ Internal(bi)
                 /\ ~Internal(bu)
                 /\ bi.priority = bu.priority + INTERNAL_PRIORITY_THRESHOLD
                 /\ event_matches(events_batch[k], bi.events)
                 /\ event_matches(events_batch[k], bu.events))
                => \A j \in DOMAIN dispatched :
                       (dispatched[j].event = k /\ dispatched[j].name = bu.name)
                       => \E i \in 1..(j - 1) :
                              dispatched[i].event = k /\ dispatched[i].name = bi.name

(***************************************************************************)
(* C9: under any sequence of play(), cancel() and ticks the status of a    *)
(* constructed tween changes only from Paused to Playing by play(), from   *)
(* Playing to Ended by a tick after the end time, and from Playing to      *)
(* Canceled by cancel(), so Ended and Canceled are terminal; and play() on *)
(* a Playing tween raises and changes nothing of the tween, the list of    *)
(* active tweens or the widget.                                            *)
(***************************************************************************)
C9_StatusTransitions ==
    [][\A t \in Tweens :
         tween_status[t] # NotConstructed =>
             /\ tween_status'[t] # tween_status[t] =>
                    \/ /\ tween_status[t] = PAUSED
                       /\ tween_status'[t] = PLAYING
                       /\ tween_last'.op = "play"
                    \/ /\ tween_status[t] = PLAYING
                       /\ tween_status'[t] = ENDED
                       /\ tween_last'.op = "update"
                       /\ clock > end_time[t]
                    \/ /\ tween_status[t] = PLAYING
                       /\ tween_status'[t] = CANCELED
                       /\ tween_last'.op = "cancel"
             /\ (tween_last'.op = "play" /\ tween_last'.t = t /\ tween_status[t] = PLAYING) =>
                    /\ tween_raised' = "Exception"
                    /\ UNCHANGED <<tween_status, original_properties, start_time, end_time,
                                   tween_ended_handlers, instantiated_tweens, properties,
                                   BLOCKING_SCREEN_BUFFER_UPDATE>>]_vars

(***************************************************************************)
(* C10: right after cancel() on a tween that was Playing, every tracked    *)
(* property of the widget holds the value captured for it by the tween's   *)
(* constructor and the status is Canceled, whatever the ticks wrote.       *)
(***************************************************************************)
C10_CancelRestores ==
    (tween_last.op = "cancel" /\ tween_last.status = PLAYING) =>
        /\ tween_status[tween_last.t] = CANCELED
        /\ \A i \in DOMAIN tween_properties[tween_last.t] :
               LET p == tween_properties[tween_last.t][i][1]
                   w == tween_instance[tween_last.t]
               IN  /\ original_properties[tween_last.t][i][1] = p
                   /\ properties[w][p] = original_properties[tween_last.t][i][2]
                   /\ Get(properties, properties_overrides, w, p)
                          = original_properties[tween_last.t][i][2]

\* the tween was canceled before its end time, after a tick had moved every
\* tracked property away from its original, one of which was not the default
C10_Witness ==
    /\ tween_last.op = "cancel"
    /\ tween_last.status = PLAYING
    /\ clock <= end_time[tween_last.t]
    /\ \A i \in DOMAIN tween_last.pre :
           tween_last.pre[i] # original_properties[tween_last.t][i][2]
    /\ \E i \in DOMAIN tween_last.pre :
           original_properties[tween_last.t][i][2]
               # DefaultProperties[original_properties[tween_last.t][i][1]]
    /\ C10_CancelRestores

(***************************************************************************)
(* C11: a tick processes every tween that is in the active list when the   *)
(* tick starts exactly once; every such tween whose status is not Playing  *)
(* after the tick has fired tween_ended exactly once in it and is no       *)
(* longer in the active list, also when several tweens end in one tick.    *)
(***************************************************************************)
Processed(t) == {i \in DOMAIN tween_tick.processed : tween_tick.processed[i].t = t}

Fired(t) == {i \in Processed(t) : tween_tick.processed[i].fired}

C11_TickProcessesAll ==
    tween_last.op = "update" =>
        \A t \in Tweens :
            InList(tween_tick.started, t) =>
                /\ Cardinality(Processed(t)) = 1
                /\ tween_status[t] # PLAYING =>
                       /\ Cardinality(Fired(t)) = 1
                       /\ ~InList(instantiated_tweens, t)

(***************************************************************************)
(* C12: in a tick, for a tween whose widget is built and whose parent's    *)
(* block counter is zero when the tween's processing starts, every tracked *)
(* property is written before any clear or draw, and the parent is cleared *)
(* and drawn exactly once for that tween, after the last write.            *)
(***************************************************************************)
RECURSIVE TweenCalls(_, _)
\* the calls a tick made for tween t, over the entries from index i on
TweenCalls(t, i) ==
    IF i > Len(tween_tick.processed) THEN <<>>
    ELSE (IF tween_tick.processed[i].t = t THEN tween_tick.processed[i].calls ELSE <<>>)
             \o TweenCalls(t, i + 1)

C12_TickRedrawsOnce ==
    tween_last.op = "update" =>
        \A t \in Tweens :
            (/\ Processed(t) # {}
             /\ \A i \in Processed(t) :
                    tween_tick.processed[i].built /\ tween_tick.processed[i].pre_counter = 0)
            => LET c == TweenCalls(t, 1)
               IN  /\ TopLevel(c) = ParentRedraw(tween_instance[t])
                   /\ \A i, j \in DOMAIN c :
                          (c[i].op = "store" /\ c[j].op \in {"clear", "draw", "blit"}) => i < j
                   /\ \A k \in DOMAIN tween_properties[t] :
                          \E i \in DOMAIN c :
                              c[i] = Call("store", tween_instance[t], tween_properties[t][k][1], 0)

(***************************************************************************)
(* The rows of a flow pass as the documentation defines them: entry i of   *)
(* the list starts a new row when the width of the row of entry i - 1 plus *)
(* its own width exceeds the width of the container.                       *)
(***************************************************************************)
Width(childs, i) == child_size[childs[i]][1]
Height(childs, i) == child_size[childs[i]][2]

RECURSIVE RowStart(_, _)
RECURSIVE RowWidth(_, _, _)

\* the summed widths of the entries of the row of entry i, from entry j to entry i
RowWidth(childs, j, i) ==
    IF j > i THEN 0 ELSE Width(childs, j) + RowWidth(childs, j + 1, i)

\* the first entry of the row of entry i
RowStart(childs, i) ==
    IF i = 1 THEN 1
    ELSE LET first == RowStart(childs, i - 1)
         IN  IF RowWidth(childs, first, i - 1) + Width(childs, i) > ContainerSize[1]
             THEN i
             ELSE first

\* the number of the row of entry i, from 1
Row(childs, i) == Cardinality({RowStart(childs, j) : j \in 1..i})

\* the largest height of the entries of row r
RowHeight(childs, r) ==
    CHOOSE h \in {Height(childs, j) : j \in {k \in DOMAIN childs : Row(childs, k) = r}} :
        \A j \in DOMAIN childs : Row(childs, j) = r => Height(childs, j) <= h

\* entry i is the last entry of its child in the list
LastEntry(childs, i) == \A j \in DOMAIN childs : j > i => childs[j] # childs[i]

\* the last operation ran a whole flow pass under the given style
Passed(horizontal, vertical, fill) ==
    /\ layout_raised = NoError
    /\ layout_last.passed # <<>>
    /\ layout_last.style = [horizontal_alignment |-> horizontal, vertical_alignment |-> vertical,
                            fill_direction |-> fill]

RECURSIVE RowOffset(_, _)
\* the secondary-axis offset of row r when every row advances by the largest
\* height of the row before it only
RowOffset(childs, r) ==
    IF r = 1 THEN 0 ELSE RowOffset(childs, r - 1) + RowHeight(childs, r - 1)

(***************************************************************************)
(* C14: after a flow pass with vertical alignment TOP and horizontal fill, *)
(* every child of every row is at the y offset of the previous row plus    *)
(* the largest child height of that previous row only, whatever the number *)
(* of rows and however tall the children of earlier rows are.              *)
(***************************************************************************)
C14_RowAdvance ==
    \A horizontal \in HorizontalAlignments :
        Passed(horizontal, "TOP", "HORIZONTAL") =>
            LET childs == layout_last.passed
            IN  \A i \in DOMAIN childs :
                    LastEntry(childs, i) =>
                        child_position(child_overrides, childs[i])[4] =
                            RowOffset(childs, Row(childs, i))

\* the step is a style setter whose flow pass ran over at least one child
\* with vertical alignment CENTER
CenterPass ==
    /\ layout_last'.op \in {"horizontal_alignment", "vertical_alignment", "fill_direction"}
    /\ layout_last'.passed # <<>>
    /\ layout_last'.style.vertical_alignment = "CENTER"

(***************************************************************************)
(* C15: a flow pass with vertical alignment CENTER over at least one child *)
(* raises, and it leaves the position of every child as it was.            *)
(***************************************************************************)
C15_VerticalCenterRejected ==
    [][CenterPass =>
           /\ layout_raised' # NoError
           /\ \A c \in Childs : child_overrides'[c].position = child_overrides[c].position]_vars

\* the step is an apply_layout on a container that has an applied layout
SecondApply == applied_layout # NoLayout /\ layout_last'.op = "apply_layout"

(***************************************************************************)
(* C16: apply_layout on a container that already has an applied layout     *)
(* raises and leaves the applied layout, the connections to child_added    *)
(* and child_removed (made together, lines 70-71) and the overrides of the *)
(* children unchanged; the container never has more than one applied       *)
(* layout: one pair of connections at most, of the layout applied first.   *)
(***************************************************************************)
C16_SecondLayoutRejected ==
    /\ [][SecondApply =>
              /\ layout_raised' = "Exception"
              /\ applied_layout' = applied_layout
              /\ child_added_connections' = child_added_connections
              /\ sorted_instance_childs' = sorted_instance_childs
              /\ child_overrides' = child_overrides]_vars
    /\ [](/\ Len(child_added_connections) <= 1
          /\ child_added_connections = IF applied_layout = NoLayout THEN <<>>
                                       ELSE <<applied_layout>>)

\* a second layout was refused on a container whose children are laid out
C16_Witness ==
    /\ layout_last.op = "apply_layout"
    /\ layout_raised = "Exception"
    /\ applied_layout \notin {NoLayout, layout_last.l}
    /\ child_added_connections = <<applied_layout>>
    /\ \E c \in Childs : child_overrides[c].position \notin {None, <<0, 0, 0, 0>>}

\* two rects share a pixel
Overlap(a, b) ==
    /\ a[1] < b[1] + b[3] /\ b[1] < a[1] + a[3]
    /\ a[2] < b[2] + b[4] /\ b[2] < a[2] + a[4]

\* the inserted items do not overlap and lie inside the bound of the root
NonOverlappingInside ==
    /\ \A i, j \in DOMAIN qt_inserted :
           i # j => ~Overlap(qt_inserted[i].rect, qt_inserted[j].rect)
    /\ \A i \in DOMAIN qt_inserted : contains(RootRect, qt_inserted[i].rect)

(***************************************************************************)
(* C17: when the inserted items do not overlap and lie inside the bound of *)
(* the root, however many they are and wherever they lie with respect to   *)
(* the quadrants, a query with the rect of any of them returns that item.  *)
(***************************************************************************)
C17_QueryFindsItem ==
    NonOverlappingInside =>
        \A i \in DOMAIN qt_inserted :
            InList(query(qt_objects, <<>>, qt_inserted[i].rect), qt_inserted[i])

(***************************************************************************)
(* C18: no node of the tree is deeper than MAX_DEPTH, a node at MAX_DEPTH  *)
(* has no quadrants, and a node below MAX_DEPTH has quadrants once it holds *)
(* CAPACITY items and was handed one more that it contains.                *)
(***************************************************************************)
C18_DepthBound ==
    \A path \in DOMAIN qt_objects :
        /\ Len(path) <= MAX_DEPTH
        /\ Len(path) = MAX_DEPTH => ~subdivided(qt_objects, path)
        /\ Len(qt_objects[path]) <= CAPACITY
        /\ subdivided(qt_objects, path) => Len(qt_objects[path]) = CAPACITY

\* the signals the documentation calls pointer signals
PointerSignals == {"mouse_entered", "mouse_moved", "mouse_button_down", "mouse_button_up"}

\* the widgets of a root that a pointer signal of the last frame was fired on
Receivers(root) ==
    {frame_log[i].w : i \in {k \in DOMAIN frame_log :
                                /\ frame_log[k].kind = "signal"
                                /\ frame_log[k].signal \in PointerSignals
                                /\ FrameRoot(frame_log[k].w) = root}}

\* the widgets the query of the last frame returned for a root
Hits(root) ==
    LET retrieved == query(root_quadtree[root], <<>>, <<frame_mouse[1], frame_mouse[2], 1, 1>>)
    IN  {retrieved[i].id : i \in DOMAIN retrieved}

RECURSIVE FrameDepth(_)
\* the depth of a widget in the widget tree, 0 for a root
FrameDepth(w) ==
    IF InList(instantiated_pygui_instances, w) THEN 0 ELSE FrameDepth(FrameParent(w)) + 1

(***************************************************************************)
(* C19: in a frame, the pointer signals of a root go to one widget, and    *)
(* that widget is, among the widgets the query returned for the pointer    *)
(* position, one that no other is deeper than in the widget tree; when the *)
(* query returned a widget, one widget gets the signals.  Frames that an   *)
(* exception ended are left aside.                                         *)
(***************************************************************************)
C19_DeepestHit ==
    (frame_log # <<>> /\ frame_raised = NoError) =>
        \A i \in DOMAIN instantiated_pygui_instances :
            LET root == instantiated_pygui_instances[i]
            IN  /\ Cardinality(Receivers(root)) <= 1
                /\ Hits(root) # {} => Receivers(root) # {}
                /\ \A r \in Receivers(root) :
                       /\ r \in Hits(root)
                       /\ \A h \in Hits(root) : FrameDepth(h) <= FrameDepth(r)

(***************************************************************************)
(* C20: in the calls of one frame, every call of a service and every       *)
(* pointer signal comes before every updater hook, whichever roots the     *)
(* signal and the hook belong to.                                          *)
(***************************************************************************)
C20_DispatchBeforeHooks ==
    \A i, j \in DOMAIN frame_log :
        (/\ frame_log[i].kind = "updater"
         /\ \/ frame_log[j].kind = "service"
            \/ frame_log[j].kind = "signal" /\ frame_log[j].signal \in PointerSignals)
            => j < i

(***************************************************************************)
(* C21: a frame's update() does not raise, whatever callback raised in it, *)
(* and both services and the updater hook of every built label have been   *)
(* called in it.                                                           *)
(***************************************************************************)
C21_FrameSurvives ==
    frame_log # <<>> =>
        /\ frame_raised = NoError
        /\ InList(frame_log, Entry("service", "", "action_service_update"))
        /\ InList(frame_log, Entry("service", "", "tween_service_update"))
        /\ \A w \in Labels : FrameBuilt(w) => InList(frame_log, Entry("updater", w, ""))

(***************************************************************************)
(* C22: after any builds and renames, every entry of a parent's child      *)
(* mapping is keyed by the name its widget returns, no widget has two      *)
(* entries and no two entries of a parent share a key.                     *)
(***************************************************************************)
C22_KeysAreNames ==
    \A p \in Widgets :
        /\ \A i \in DOMAIN childrens[p] : childrens[p][i][1] = name[childrens[p][i][2]]
        /\ \A i, j \in DOMAIN childrens[p] :
               i # j => /\ childrens[p][i][1] # childrens[p][j][1]
                        /\ childrens[p][i][2] # childrens[p][j][2]

\* the step is a rename of an attached widget to the key of another child
\* of its parent
Collision ==
    /\ last'.op = "name"
    /\ parent[last'.w] # NoParent
    /\ LET d == childrens[parent[last'.w]]
       IN  /\ name[last'.w] \in DictKeys(d)
           /\ last'.p \in DictKeys(d)
           /\ DictGet(d, last'.p) # last'.w

(***************************************************************************)
(* C23: a rename to the name of another child of the same parent raises    *)
(* and leaves the child mapping of the parent as it was.                   *)
(***************************************************************************)
C23_CollisionRejected ==
    [][Collision => raised' # NoError /\ childrens' = childrens]_vars

(***************************************************************************)
(* C24: a property write that raises leaves the property as it was; for    *)
(* the layout_order setter, a call that raises leaves layout_order as it   *)
(* was.                                                                    *)
(***************************************************************************)
C24_FailedWriteKeepsValue ==
    [][(layout_last'.op = "layout_order" /\ layout_raised' # NoError)
           => layout_order' = layout_order]_vars

\* what stands in for the parent of w: the parent's absolute size and
\* position, or the display and its origin for a root
ParentSize(w) ==
    IF parent[w] = NoParent THEN DisplaySize
    ELSE absolute_size(properties, properties_overrides, parent[w])

ParentPosition(w) ==
    IF parent[w] = NoParent THEN <<0, 0>>
    ELSE absolute_position(properties, properties_overrides, parent[w])

\* the property values as the getters return them now
Size(w) == Get(properties, properties_overrides, w, "size")
Position(w) == Get(properties, properties_overrides, w, "position")
Anchor(w) == Get(properties, properties_overrides, w, "anchor_point")

Transposed(size) == <<size[2], size[1]>>

\* the position overrides a HORIZONTAL pass writes for the transposed
\* container and the transposed children, in the given style
TransposedPass(style, childs) ==
    flow([largest_child_width |-> 0, largest_child_height |-> 0,
          current_row_width |-> 0, current_row_height |-> 0,
          last_row_index |-> 0, current_row_index |-> 0, x |-> 0,
          overrides |-> [c \in Childs |-> [position |-> <<0, 0, 0, 0>>, anchor_point |-> None]],
          counter |-> 0, calls |-> <<>>, raised |-> NoError],
         [style EXCEPT !.fill_direction = "HORIZONTAL"], childs, 1,
         Transposed(ContainerSize), [c \in Childs |-> Transposed(child_size[c])]).overrides

(***************************************************************************)
(* C26: after a completed flow pass with fill direction VERTICAL, every    *)
(* laid-out child has the transposed position (x and y exchanged) of the   *)
(* one the HORIZONTAL pass gives it for the transposed problem, in which   *)
(* the container's and every child's width and height are exchanged.       *)
(***************************************************************************)
C26_VerticalIsTranspose ==
    (/\ layout_raised = NoError
     /\ layout_last.passed # <<>>
     /\ layout_last.style.fill_direction = "VERTICAL")
        => \A i \in 1..Len(layout_last.passed) :
               LET c == layout_last.passed[i]
                   horizontal == TransposedPass(layout_last.style, layout_last.passed)[c].position
               IN  child_overrides[c].position
                       = <<0, horizontal[4], 0, horizontal[2]>>

RECURSIVE AfterLastPass(_)
\* the calls of the last flow pass of the operation
AfterLastPass(log) ==
    IF log = <<>> THEN <<>>
    ELSE IF log[Len(log)] = "pass" THEN <<>>
         ELSE Append(AfterLastPass(SubSeq(log, 1, Len(log) - 1)), log[Len(log)])

(***************************************************************************)
(* C27: a completed flow pass clears and draws the container exactly once, *)
(* at its end: no clear() or draw() of the container is made while the     *)
(* children are blocked and written, and none besides the final pair.      *)
(***************************************************************************)
C27_OneRedrawPerPass ==
    (layout_raised = NoError /\ InList(layout_calls, "pass"))
        => AfterLastPass(layout_calls) = <<"clear", "draw">>

\* how often child c is in the list
Listed(s, c) == Cardinality({i \in DOMAIN s : s[i] = c})

(***************************************************************************)
(* C28: when child_removed fires for a child that the applied layout       *)
(* lists, nothing is raised, the child's position and anchor_point         *)
(* overrides are removed, the child is no longer in the sorted list and    *)
(* the flow pass is run again.                                             *)
(***************************************************************************)
C28_ChildRemoved ==
    [][\A c \in Childs :
           (/\ layout_last'.op = "child_removed"
            /\ applied_layout # NoLayout
            /\ Listed(sorted_instance_childs'[applied_layout], c)
                   < Listed(sorted_instance_childs[applied_layout], c))
               => /\ layout_raised' = NoError
                  /\ child_overrides'[c] = [position |-> None, anchor_point |-> None]
                  /\ ~InList(sorted_instance_childs'[applied_layout], c)
                  /\ InList(layout_calls', "pass")]_vars

\* the list is in ascending layout_order, ties in the order of F's children
SortedByLayoutOrder(s) ==
    \A i, j \in DOMAIN s :
        i < j => \/ layout_order[s[i]] < layout_order[s[j]]
                 \/ /\ layout_order[s[i]] = layout_order[s[j]]
                    /\ \A m, n \in DOMAIN F_childrens :
                           (F_childrens[m] = s[i] /\ F_childrens[n] = s[j]) => m <= n

(***************************************************************************)
(* C29: the list a flow pass of a layout runs over holds exactly the       *)
(* current children of the container, each once, in ascending              *)
(* layout_order, ties in insertion order.                                  *)
(***************************************************************************)
C29_ListIsChildren ==
    (InList(layout_calls, "pass") /\ layout_last.l # NoLayout
         /\ layout_instance[layout_last.l] # NoLayout)
        => LET childs == sorted_instance_childs[layout_last.l]
           IN  /\ \A c \in Childs : Listed(childs, c) = Listed(F_childrens, c)
               /\ \A c \in Childs : Listed(childs, c) <= 1
               /\ SortedByLayoutOrder(childs)

(***************************************************************************)
(* C30: a layout is bound to at most one container: the instance of the    *)
(* layout applied to a container is that container, and no layout is the   *)
(* applied layout of both containers, whatever apply_layout calls were     *)
(* made, the rejected ones included.                                       *)
(***************************************************************************)
C30_OneContainerPerLayout ==
    /\ applied_layout # NoLayout => layout_instance[applied_layout] = "F"
    /\ G_applied_layout # NoLayout => layout_instance[G_applied_layout] = "G"
    /\ applied_layout # NoLayout => applied_layout # G_applied_layout

(***************************************************************************)
(* C31: apply_layout of a grid layout on a container that has no layout,   *)
(* whatever children it has, and every later build of a child, raise       *)
(* nothing, call the grid's order manager with the sorted child list and   *)
(* leave every child's position as it was.                                 *)
(***************************************************************************)
C31_GridHooks ==
    [][(/\ F_root_quadtree_reference
        /\ \/ layout_last'.op = "grid_apply_layout" /\ applied_layout = NoLayout
           \/ layout_last'.op = "build" /\ applied_layout \in GridLayouts)
           => /\ layout_raised' = NoError
              /\ InList(layout_calls', "pass")
              /\ layout_last'.passed = sorted_instance_childs'[applied_layout']
              /\ \A c \in Childs : child_position(child_overrides', c)
                                       = child_position(child_overrides, c)]_vars

\* the last operation drew widget w
Drew(w) == \E i \in DOMAIN calls : calls[i].op = "draw" /\ calls[i].w = w

(***************************************************************************)
(* C32: a widget that is drawn visits its children in ascending            *)
(* draw_order: when the last operation drew a widget, the values of its    *)
(* child mapping are in ascending draw_order.                              *)
(***************************************************************************)
C32_AscendingDrawOrder ==
    \A w \in Widgets :
        Drew(w) =>
            LET kids == DictValues(childrens[w])
            IN  \A i, j \in DOMAIN kids :
                    i < j => properties[kids[i]]["draw_order"] <= properties[kids[j]]["draw_order"]

(***************************************************************************)
(* C33: the updater hooks of a widget, and likewise its drawer hooks, are  *)
(* invoked in the order in which they were registered, for any number of   *)
(* hooks.                                                                  *)
(***************************************************************************)
C33_RegistrationOrder ==
    /\ hook_last = "update" => hook_log = updaters_registered
    /\ hook_last = "draw" => hook_log = drawers_registered

\* the connections made, latest first: the order in which fire reaches them
RECURSIVE Turns(_)
Turns(made) == IF made = <<>> THEN <<>> ELSE <<made[Len(made)]>> \o Turns(SubSeq(made, 1, Len(made) - 1))

RECURSIVE Expected(_, _, _)
\* the connections a fire has to invoke: each one that is connected when its
\* turn comes, given what the callbacks invoked before it disconnected
Expected(turns, on, script) ==
    IF turns = <<>> THEN <<>>
    ELSE LET k == Head(turns)
         IN  IF k \in on
             THEN <<k>> \o Expected(Tail(turns), on \ {script[k][i] : i \in DOMAIN script[k]}, script)
             ELSE Expected(Tail(turns), on, script)

(***************************************************************************)
(* C34: a fire that does not raise invokes, exactly once, every callback   *)
(* that is connected when its turn comes, and no other: not one that was   *)
(* disconnected before the fire, and not one that an earlier callback of   *)
(* the fire disconnected, while a callback that disconnects itself or      *)
(* others does not stop the remaining ones; a disconnect leaves every      *)
(* other connection as connected as it was.                                *)
(***************************************************************************)
C34_FireConnected ==
    /\ (signal_last.op = "fire" /\ signal_raised = NoError) =>
           LET on == {k \in Connections : signal_last.pre_connected[k]}
               due == Expected(Turns(signal_connections), on, signal_last.script)
           IN  /\ \A i, j \in DOMAIN signal_fired : signal_fired[i] = signal_fired[j] => i = j
               /\ {signal_fired[i] : i \in DOMAIN signal_fired} = {due[i] : i \in DOMAIN due}
    /\ signal_last.op = "disconnect" =>
           /\ ~connection_connected[signal_last.c]
           /\ \A k \in Connections \ {signal_last.c} :
                  connection_connected[k] = signal_last.pre_connected[k]

\* a fire in which a callback disconnected itself and the connection after
\* it, and the callback of a third connection was invoked after it
C34_Witness ==
    /\ signal_last.op = "fire"
    /\ signal_raised = NoError
    /\ Len(signal_fired) = 2
    /\ signal_last.script[signal_fired[1]] = <<signal_fired[1], "k2">>
    /\ signal_fired = <<"k3", "k1">>

(***************************************************************************)
(* C35: every operation that raises a block counter lowers it again before *)
(* it returns: after a flow pass of a list layout, whether it finishes     *)
(* normally or raises, the container's block counter equals its value      *)
(* before the operation, and it is never negative.                         *)
(***************************************************************************)
C35_CounterRestored ==
    [][/\ F_BLOCKING_SCREEN_BUFFER_UPDATE' = F_BLOCKING_SCREEN_BUFFER_UPDATE
       /\ F_BLOCKING_SCREEN_BUFFER_UPDATE' >= 0]_vars

(***************************************************************************)
(* C36: after cancel() on a playing tween, a later tick of the tween       *)
(* service writes none of the tween's tracked properties, each of which    *)
(* keeps its restored original value, and the status stays Canceled.       *)
(***************************************************************************)
C36_CanceledStaysRestored ==
    [][\A t \in Played :
         (tween_status[t] = CANCELED /\ tween_last'.op = "update") =>
             /\ tween_status'[t] = CANCELED
             /\ \A i \in DOMAIN tween_properties[t] :
                    Get(properties', properties_overrides', tween_instance[t],
                        tween_properties[t][i][1])
                        = Get(properties, properties_overrides, tween_instance[t],
                              tween_properties[t][i][1])]_vars

(***************************************************************************)
(* C37: when a tick fires tween-ended with status Ended for a LINEAR tween *)
(* that was never canceled, the write of that tick used alpha = 1 and      *)
(* every tracked property of the widget equals the tween's target value,   *)
(* however the clock advanced between the two readings of the tick.        *)
(***************************************************************************)
C37_EndedAtTarget ==
    \A n \in DOMAIN tween_tick.processed :
        LET entry == tween_tick.processed[n]
        IN  (entry.fired /\ entry.status = ENDED) =>
                /\ entry.alpha = tween_duration[entry.t]
                /\ \A i \in DOMAIN tween_properties[entry.t] :
                       Get(properties, properties_overrides, tween_instance[entry.t],
                           tween_properties[entry.t][i][1])
                           = tween_properties[entry.t][i][2]

(***************************************************************************)
(* C38: when the widget under the pointer changes from a to b, the         *)
(* mouse-leaving signal of a fires in that same frame, before the          *)
(* mouse-entered signal of b, so that the two signals of a widget          *)
(* alternate and one widget at most is entered and not yet left; this also *)
(* when the widget changes in consecutive frames.                          *)
(***************************************************************************)
C38_LeavingBeforeEntered ==
    [][\A a, b \in FrameWidgets :
         (/\ current_mouse_over_instance = a
          /\ a # b
          /\ InList(frame_log', Entry("signal", b, "mouse_entered")))
             => \E i, j \in DOMAIN frame_log' :
                    /\ i < j
                    /\ frame_log'[i] = Entry("signal", a, "mouse_leaving")
                    /\ frame_log'[j] = Entry("signal", b, "mouse_entered")]_vars

\* the names of the seven internal bindings
InternalNames == {InternalBinds[i][1] : i \in DOMAIN InternalBinds}

\* the names that are bound in the action service
BoundNames == {binds_events_queue[i].name : i \in DOMAIN binds_events_queue}

(***************************************************************************)
(* C39: under any sequence of mouse-down, capture_focus and release_focus  *)
(* on the text boxes, gaining focus never raises a duplicate-binding       *)
(* error, one text box at most is focused, and the seven internal key      *)
(* bindings are bound exactly while some text box is focused, with the     *)
(* callbacks of the focused box.                                           *)
(***************************************************************************)
C39_FocusBindings ==
    /\ focus_raised = NoError
    /\ Cardinality({b \in TextBoxes : is_focused[b]}) <= 1
    /\ IF \E b \in TextBoxes : is_focused[b]
       THEN InternalNames \subseteq BoundNames
       ELSE InternalNames \cap BoundNames = {}
    /\ \A i \in DOMAIN binds_events_queue :
           binds_events_queue[i].name \in InternalNames
               => is_focused[binds_events_queue[i].callback]

RECURSIVE Shown(_)
\* the widget and every ancestor of it has a true visible flag
Shown(w) ==
    IF w = NoParent THEN TRUE ELSE properties[w]["visible"] /\ Shown(parent[w])

(***************************************************************************)
(* C40: a widget whose visible flag is false, and every descendant of such *)
(* a widget, is never blitted to the surface: no build(), property write   *)
(* or other operation draws a widget that is invisible or has an invisible *)
(* ancestor.                                                               *)
(***************************************************************************)
C40_InvisibleNeverDrawn ==
    \A i \in DOMAIN calls : calls[i].op = "blit" => Shown(calls[i].w)

=============================================================================
